---- MODULE Spec2Model ----
(***************************************************************************)
(* A model of the Sumo Logic client library (package sumologic): the       *)
(* Client, the four resource kinds (Collector, HTTPSource,                 *)
(* AWSCloudTrailSource, AWSLogSource) and their Get / Create / Update /    *)
(* Delete functions.  Each function is two steps: the call, which builds   *)
(* and issues one HTTP request, and the return, which turns what the       *)
(* transport yields (a response, or a transport error) into the            *)
(* function's results.                                                     *)
(*                                                                         *)
(* Text (Go strings) is a sequence of one-character strings, so that       *)
(* formatting, concatenation and matching are computed on the characters.  *)
(* The grave accent cannot be written in a TLA+ string and is the element  *)
(* "U+0060".  JSON documents are modelled after lexing: a body is empty,   *)
(* syntactically invalid, or a JSON value.                                 *)
(***************************************************************************)
EXTENDS Integers, Sequences, FiniteSets, TLC

VARIABLES
  construction,  \* the arguments NewClient was called with, and its error
  client,        \* the Client that NewClient returned
  pc,            \* the position of the caller
  call,          \* the function in progress and its arguments
  request,       \* the request the function built
  sent,          \* the requests handed to the transport during the call
  outcome,       \* what the transport yielded
  result,        \* what the function returned
  server,        \* the remote resource and its version, where one is modelled
  held,          \* the resource and ETag the caller keeps from its last Get
  other          \* a second caller of the same Client, where one is modelled

vars == <<construction, client, pc, call, request, sent, outcome, result,
          server, held, other>>

\* What lies outside a single caller's calls.
env == <<server, held, other>>

(***************************************************************************)
(* Bounds of the model.                                                    *)
(***************************************************************************)
\* Identifiers passed as arguments range over 0..MaxId and DefaultID.
MaxId == 1

\* The identifier the tests use (defaultHTTPSource.ID and the others).
DefaultID == 1234567890

(***************************************************************************)
(* Text.                                                                   *)
(***************************************************************************)
\* strings.Contains: sub occurs in s.
Contains(s, sub) ==
  \E i \in 0..(Len(s) - Len(sub)) : SubSeq(s, i + 1, i + Len(sub)) = sub

\* The literal lit occurs in s at position i.
HasAt(s, i, lit) ==
  /\ i >= 1
  /\ i + Len(lit) - 1 <= Len(s)
  /\ SubSeq(s, i, i + Len(lit) - 1) = lit

DigitChar(d) == <<"0", "1", "2", "3", "4", "5", "6", "7", "8", "9">>[d + 1]

\* The decimal rendering of an int, as the verb %d prints it.
RECURSIVE Itoa(_)
Itoa(n) ==
  IF n < 0 THEN <<"-">> \o Itoa(-n)
  ELSE IF n < 10 THEN <<DigitChar(n)>>
  ELSE Itoa(n \div 10) \o <<DigitChar(n % 10)>>

\* fmt: the verb %d applied to an int.
FmtD(n) == Itoa(n)

\* fmt: the verb %s applied to a string.
FmtS(s) == s

\* fmt: a verb that the operand's type does not support prints
\* %!verb(type=value); this is %s applied to an int.
FmtBadVerbInt(verb, n) == <<"%","!">> \o <<verb>> \o <<"(","i","n","t","=">> \o Itoa(n) \o <<")">>

\* fmt: the same for a string operand; the verb of "`%`" is the grave accent
\* that follows the percent sign.
FmtBadVerbString(verb, s) == <<"%","!">> \o <<verb>> \o <<"(","s","t","r","i","n","g","=">> \o s \o <<")">>

(***************************************************************************)
(* Errors.  An error value has an identity (id) and a message; the         *)
(* package's sentinels are distinct values, and every call of fmt.Errorf   *)
(* or of the JSON decoder makes a value that is none of the sentinels.     *)
(***************************************************************************)
NoErr == [id |-> "nil", msg |-> <<>>]

ErrClientAuthenticationError ==
  [id |-> "ErrClientAuthenticationError", msg |-> <<"A","u","t","h","e","n","t","i","c","a","t","i","o","n"," ","E","r","r","o","r"," ","w","i","t","h"," ","S","u","m","o"," ","L","o","g","i","c">>]

ErrCollectorNotFound ==
  [id |-> "ErrCollectorNotFound", msg |-> <<"C","o","l","l","e","c","t","o","r"," ","n","o","t"," ","f","o","u","n","d">>]

ErrSourceNotFound ==
  [id |-> "ErrSourceNotFound", msg |-> <<"S","o","u","r","c","e"," ","n","o","t"," ","f","o","u","n","d">>]

\* (Mutant: the AWS error is the client error under a second name.)
ErrAwsAuthenticationErrorAlias == ErrClientAuthenticationError

ErrAwsAuthenticationError ==
  [id |-> "ErrAwsAuthenticationError", msg |-> <<"A","u","t","h","e","n","t","i","c","a","t","i","o","n"," ","E","r","r","o","r"," ","w","i","t","h"," ","S","u","m","o"," ","L","o","g","i","c">>]

Errorf(text) == [id |-> "fmt.Errorf", msg |-> text]

\* The decoder's errors: the body is not a JSON document, or a JSON value
\* does not fit the Go type it is decoded into.
JSONSyntaxError == [id |-> "json.SyntaxError", msg |-> <<"u","n","e","x","p","e","c","t","e","d"," ","e","n","d"," ","o","f"," ","J","S","O","N"," ","i","n","p","u","t">>]

JSONTypeError == [id |-> "json.UnmarshalTypeError", msg |-> <<"j","s","o","n",":"," ","c","a","n","n","o","t"," ","u","n","m","a","r","s","h","a","l">>]

\* What the transport returns when no response is received.
TransportError == [id |-> "url.Error", msg |-> <<"c","o","n","n","e","c","t","i","o","n"," ","r","e","f","u","s","e","d">>]

(***************************************************************************)
(* JSON values, tagged by kind.                                            *)
(***************************************************************************)
JNull == [t |-> "null", v |-> 0]
JNum(n) == [t |-> "num", v |-> n]
JStr(s) == [t |-> "str", v |-> s]
JBool(b) == [t |-> "bool", v |-> b]
JArr(s) == [t |-> "arr", v |-> s]
JObj(f) == [t |-> "obj", v |-> f]

\* A body of zero bytes, and a body that is not a JSON document.
BodyEmpty == [t |-> "empty", v |-> 0]
BodySyntax == [t |-> "syntax", v |-> 0]

NoKeys == [k \in {} |-> JNull]

(***************************************************************************)
(* Go values: an int is an integer, a string is text, a bool is a boolean, *)
(* a struct is a record over its field names, and a slice is nil or a      *)
(* sequence of elements.                                                   *)
(***************************************************************************)
NilSlice == [isnil |-> TRUE, elems |-> <<>>]
MkSlice(s) == [isnil |-> FALSE, elems |-> s]

\* A struct type is its fields by name, each with the key and the omitempty
\* option of its json tag and with its type.
T(key, omitempty, type) == [key |-> key, omitempty |-> omitempty, type |-> type]

CollectorRequestFields == [Collector |-> T("collector", FALSE, "Collector")]

CollectorFields ==
  [ ID |-> T("id", TRUE, "int"),
    Name |-> T("name", FALSE, "string"),
    Description |-> T("description", TRUE, "string"),
    Category |-> T("category", TRUE, "string"),
    TimeZone |-> T("timezone", TRUE, "string"),
    Links |-> T("links", TRUE, "[]CollectorLinks"),
    CollectorType |-> T("collectorType", TRUE, "string"),
    CollectorVersion |-> T("collectorVersion", TRUE, "string"),
    LastSeenAlive |-> T("lastSeenAlive", TRUE, "int64"),
    Alive |-> T("alive", TRUE, "bool") ]

CollectorLinksFields ==
  [ Rel |-> T("rel", FALSE, "string"),
    Href |-> T("href", FALSE, "string") ]

HTTPSourceRequestFields == [Source |-> T("source", FALSE, "HTTPSource")]

HTTPSourceFields ==
  [ ID |-> T("id", TRUE, "int"),
    Name |-> T("name", FALSE, "string"),
    CollectorID |-> T("CollectorId", TRUE, "int"),
    Description |-> T("description", TRUE, "string"),
    Category |-> T("category", TRUE, "string"),
    TimeZone |-> T("timezone", TRUE, "string"),
    SourceType |-> T("sourceType", TRUE, "string"),
    MessagePerRequest |-> T("messagePerRequest", FALSE, "bool"),
    MultilineProcessingEnabled |-> T("multilineProcessingEnabled", FALSE, "bool"),
    UseAutolineMatching |-> T("useAutolineMatching", FALSE, "bool"),
    ManualPrefixRegexp |-> T("manualPrefixRegexp", TRUE, "string"),
    Url |-> T("url", TRUE, "string"),
    Filters |-> T("filters", TRUE, "[]Filter") ]

\* The element type of HTTPSource.Filters.
FilterFields ==
  [ FilterType |-> T("filterType", TRUE, "string"),
    Name |-> T("name", TRUE, "string"),
    Regexp |-> T("regexp", TRUE, "string") ]

ErrorFields ==
  [ Status |-> T("status", FALSE, "int"),
    ID |-> T("id", FALSE, "string"),
    Code |-> T("code", FALSE, "string"),
    Message |-> T("message", FALSE, "string") ]

AWSCloudTrailSourceRequestFields ==
  [Source |-> T("source", FALSE, "AWSCloudTrailSource")]

AWSCloudTrailSourceFields ==
  [ ID |-> T("id", TRUE, "int"),
    Name |-> T("name", FALSE, "string"),
    CollectorID |-> T("CollectorId", TRUE, "int"),
    Description |-> T("description", TRUE, "string"),
    Category |-> T("category", TRUE, "string"),
    TimeZone |-> T("timezone", TRUE, "string"),
    SourceType |-> T("sourceType", TRUE, "string"),
    ContentType |-> T("contentType", TRUE, "string"),
    ScanInterval |-> T("scanInterval", TRUE, "int"),
    Paused |-> T("paused", FALSE, "bool"),
    CutoffRelativeTime |-> T("cutoffRelativeTime", FALSE, "string"),
    ThirdPartyRef |-> T("thirdPartyRef", TRUE, "AWSBucketThirdPartyRef") ]

AWSBucketThirdPartyRefFields ==
  [Resources |-> T("resources", TRUE, "[]AWSBucketResource")]

AWSBucketResourceFields ==
  [ ServiceType |-> T("serviceType", FALSE, "string"),
    Path |-> T("path", FALSE, "AWSBucketPath"),
    Authentication |-> T("authentication", FALSE, "AWSBucketAuthentication") ]

AWSBucketPathFields ==
  [ Type |-> T("type", FALSE, "string"),
    BucketName |-> T("bucketName", FALSE, "string"),
    PathExpression |-> T("pathExpression", FALSE, "string") ]

AWSBucketAuthenticationFields ==
  [ Type |-> T("type", FALSE, "string"),
    RoleARN |-> T("roleARN", FALSE, "string") ]

AWSLogSourceRequestFields == [Source |-> T("source", FALSE, "AWSLogSource")]

AWSLogSourceFields ==
  [ ID |-> T("id", TRUE, "int"),
    Name |-> T("name", FALSE, "string"),
    CollectorID |-> T("CollectorId", TRUE, "int"),
    Description |-> T("description", TRUE, "string"),
    Category |-> T("category", TRUE, "string"),
    TimeZone |-> T("timezone", TRUE, "string"),
    SourceType |-> T("sourceType", TRUE, "string"),
    ContentType |-> T("contentType", TRUE, "string"),
    ScanInterval |-> T("scanInterval", TRUE, "int"),
    Paused |-> T("paused", FALSE, "bool"),
    CutoffRelativeTime |-> T("cutoffRelativeTime", TRUE, "string"),
    MultilineProcessingEnabled |-> T("multilineProcessingEnabled", TRUE, "bool"),
    UseAutolineMatching |-> T("useAutolineMatching", TRUE, "bool"),
    ManualPrefixRegexp |-> T("manualPrefixRegexp", TRUE, "string"),
    Url |-> T("url", TRUE, "string"),
    ThirdPartyRef |-> T("thirdPartyRef", TRUE, "AWSBucketThirdPartyRef") ]

IntTypes == {"int", "int64"}

SliceTypes == {"[]CollectorLinks", "[]Filter", "[]AWSBucketResource"}

ElemType(ty) ==
  CASE ty = "[]CollectorLinks" -> "CollectorLinks"
    [] ty = "[]Filter" -> "Filter"
    [] ty = "[]AWSBucketResource" -> "AWSBucketResource"

StructFields(ty) ==
  CASE ty = "CollectorRequest" -> CollectorRequestFields
    [] ty = "Collector" -> CollectorFields
    [] ty = "CollectorLinks" -> CollectorLinksFields
    [] ty = "HTTPSourceRequest" -> HTTPSourceRequestFields
    [] ty = "HTTPSource" -> HTTPSourceFields
    [] ty = "Filter" -> FilterFields
    [] ty = "Error" -> ErrorFields
    [] ty = "AWSCloudTrailSourceRequest" -> AWSCloudTrailSourceRequestFields
    [] ty = "AWSCloudTrailSource" -> AWSCloudTrailSourceFields
    [] ty = "AWSLogSourceRequest" -> AWSLogSourceRequestFields
    [] ty = "AWSLogSource" -> AWSLogSourceFields
    [] ty = "AWSBucketThirdPartyRef" -> AWSBucketThirdPartyRefFields
    [] ty = "AWSBucketResource" -> AWSBucketResourceFields
    [] ty = "AWSBucketPath" -> AWSBucketPathFields
    [] ty = "AWSBucketAuthentication" -> AWSBucketAuthenticationFields

FieldNames(ty) == DOMAIN StructFields(ty)

\* The name of the field of ty whose tag has the key k.
FieldKeyed(ty, k) == CHOOSE n \in FieldNames(ty) : StructFields(ty)[n].key = k

\* The zero value of a Go type.
RECURSIVE Zero(_)
Zero(ty) ==
  CASE ty \in IntTypes -> 0
    [] ty = "string" -> <<>>
    [] ty = "bool" -> FALSE
    [] ty \in SliceTypes -> NilSlice
    [] OTHER -> [n \in FieldNames(ty) |-> Zero(StructFields(ty)[n].type)]

(***************************************************************************)
(* encoding/json, as far as the struct tags above drive it.                *)
(***************************************************************************)
\* omitempty leaves out false, 0, the empty string and a slice of length 0
\* (nil or not); a struct value is never empty.
IsEmptyValue(ty, v) ==
  CASE ty \in IntTypes -> v = 0
    [] ty = "string" -> Len(v) = 0
    [] ty = "bool" -> v = FALSE
    [] ty \in SliceTypes -> Len(v.elems) = 0
    [] OTHER -> FALSE

\* The text json.Marshal writes for a Go string: a byte that is not part of
\* a UTF-8 sequence (the element "0xFF" of a text) is written as the
\* replacement character U+FFFD; every other character is read back as it
\* was written.
ToValidUTF8(s) ==
  [i \in 1..Len(s) |-> IF s[i] = "0xFF" THEN "U+FFFD" ELSE s[i]]

\* json.Marshal of the Go value v of type ty.
RECURSIVE Marshal(_, _)
Marshal(ty, v) ==
  CASE ty \in IntTypes -> JNum(v)
    [] ty = "string" -> JStr(ToValidUTF8(v))
    [] ty = "bool" -> JBool(v)
    [] ty \in SliceTypes ->
         IF v.isnil THEN JNull
         ELSE JArr([i \in 1..Len(v.elems) |-> Marshal(ElemType(ty), v.elems[i])])
    [] OTHER ->
         LET fs == StructFields(ty)
             emitted == {n \in DOMAIN fs :
                           ~(fs[n].omitempty /\ IsEmptyValue(fs[n].type, v[n]))}
         IN JObj([k \in {fs[n].key : n \in emitted} |->
                    Marshal(fs[FieldKeyed(ty, k)].type, v[FieldKeyed(ty, k)])])

\* Case folding of the object keys the model uses: the decoder matches a key
\* to a field by its exact tag first and by case-insensitive comparison next.
KeyLower(k) ==
  CASE k = "Source" -> "source"
    [] k = "Collector" -> "collector"
    [] k = "ID" -> "id"
    [] k = "Name" -> "name"
    [] k = "Message" -> "message"
    [] k = "CollectorId" -> "collectorid"
    [] k = "collectorId" -> "collectorid"
    [] OTHER -> k

EqualFold(a, b) == KeyLower(a) = KeyLower(b)

\* (Mutant: a decoder that looks a field up by the lower-case spelling of
\* its tag only.)
KeysForLowerCase(obj, key) == {k \in DOMAIN obj : k = KeyLower(key)}

\* The keys of the object obj that are stored into the field tagged key.
\* (An object holding both the exact key and a folded spelling stores both in
\* document order; the bodies of this model never hold both.)
KeysFor(obj, key) ==
  IF key \in DOMAIN obj THEN {key}
  ELSE {k \in DOMAIN obj : EqualFold(k, key)}

\* The decoder storing the JSON value j into a Go value of type ty that
\* holds cur: the value afterwards.  JSON null leaves ints, strings, bools
\* and structs as they are and makes a slice nil; a JSON value that does not
\* fit its Go type is skipped; a key that matches no field is skipped.
RECURSIVE Decode(_, _, _)
Decode(ty, j, cur) ==
  IF j.t = "null" THEN (IF ty \in SliceTypes THEN NilSlice ELSE cur)
  ELSE
  CASE ty \in IntTypes -> IF j.t = "num" THEN j.v ELSE cur
    [] ty = "string" -> IF j.t = "str" THEN j.v ELSE cur
    [] ty = "bool" -> IF j.t = "bool" THEN j.v ELSE cur
    [] ty \in SliceTypes ->
         IF j.t = "arr"
         THEN MkSlice([i \in 1..Len(j.v) |->
                         Decode(ElemType(ty), j.v[i], Zero(ElemType(ty)))])
         ELSE cur
    [] OTHER ->
         IF j.t = "obj"
         THEN [n \in FieldNames(ty) |->
                 LET f == StructFields(ty)[n]
                     keys == KeysFor(j.v, f.key)
                 IN IF keys = {} THEN cur[n]
                    ELSE Decode(f.type, j.v[CHOOSE k \in keys : TRUE], cur[n])]
         ELSE cur

\* Some JSON value of j does not fit the Go type it is stored into: the
\* decoder then reports an UnmarshalTypeError after storing the rest.
RECURSIVE Misfit(_, _)
Misfit(ty, j) ==
  IF j.t = "null" THEN FALSE
  ELSE
  CASE ty \in IntTypes -> j.t # "num"
    [] ty = "string" -> j.t # "str"
    [] ty = "bool" -> j.t # "bool"
    [] ty \in SliceTypes ->
         \/ j.t # "arr"
         \/ \E i \in 1..Len(j.v) : Misfit(ElemType(ty), j.v[i])
    [] OTHER ->
         \/ j.t # "obj"
         \/ \E n \in FieldNames(ty) :
              \E k \in KeysFor(j.v, StructFields(ty)[n].key) :
                Misfit(StructFields(ty)[n].type, j.v[k])

\* (Mutant: a decoder that reports an error for an object holding no key of
\* the struct.)
UnmarshalRequiringKey(ty, body, cur) ==
  CASE body.t \in {"empty", "syntax"} ->
         [isnil |-> FALSE, val |-> cur, err |-> JSONSyntaxError]
    [] body.t = "null" ->
         [isnil |-> TRUE, val |-> cur, err |-> NoErr]
    [] OTHER ->
         [isnil |-> FALSE, val |-> Decode(ty, body, cur),
          err |-> IF \/ Misfit(ty, body)
                     \/ /\ body.t = "obj"
                        /\ \A n \in FieldNames(ty) :
                             KeysFor(body.v, StructFields(ty)[n].key) = {}
                  THEN JSONTypeError ELSE NoErr]

\* json.Unmarshal(body, &p) where p is a pointer made by new(T) and cur is
\* the struct it points to.  The body is checked to be one JSON document
\* before anything is stored.  A body of JSON null sets p itself to nil and
\* reports no error.
Unmarshal(ty, body, cur) ==
  CASE body.t \in {"empty", "syntax"} ->
         [isnil |-> FALSE, val |-> cur, err |-> JSONSyntaxError]
    [] body.t = "null" ->
         [isnil |-> TRUE, val |-> cur, err |-> NoErr]
    [] OTHER ->
         [isnil |-> FALSE, val |-> Decode(ty, body, cur),
          err |-> IF Misfit(ty, body) THEN JSONTypeError ELSE NoErr]

(***************************************************************************)
(* regexp.MatchString("The S3 bucket 'bucketName=.*' is not readable.", m) *)
(* The match is not anchored, and a dot matches any character but a        *)
(* newline.                                                                *)
(***************************************************************************)
S3Prefix == <<"T","h","e"," ","S","3"," ","b","u","c","k","e","t"," ","'","b","u","c","k","e","t","N","a","m","e","=">>

S3Suffix == <<"'"," ","i","s"," ","n","o","t"," ","r","e","a","d","a","b","l","e">>

MatchS3NotReadable(msg) ==
  \E i \in 1..Len(msg) :
    /\ HasAt(msg, i, S3Prefix)
    /\ \E k \in (i + Len(S3Prefix))..Len(msg) :
         /\ HasAt(msg, k, S3Suffix)
         /\ \A m \in (i + Len(S3Prefix))..(k - 1) : msg[m] # "\n"
         /\ k + Len(S3Suffix) <= Len(msg)
         /\ msg[k + Len(S3Suffix)] # "\n"

\* (Mutant: the message without its final period.)
MsgCannotAuthenticateTypo == <<"C","a","n","n","o","t"," ","a","u","t","h","e","n","t","i","c","a","t","e"," ","w","i","t","h"," ","A","W","S">>

MsgCannotAuthenticate == <<"C","a","n","n","o","t"," ","a","u","t","h","e","n","t","i","c","a","t","e"," ","w","i","t","h"," ","A","W","S",".">>

MsgInvalidIAMRole == <<"I","n","v","a","l","i","d"," ","I","A","M"," ","r","o","l","e",":"," ","'","e","r","r","o","r","C","o","d","e","=","A","c","c","e","s","s","D","e","n","i","e","d","'",".">>

(***************************************************************************)
(* net/url and net/http, as far as the functions use them.                 *)
(***************************************************************************)
\* The position of the last "/" of p, or 0.
LastIndexSlash(p) ==
  IF \E i \in 1..Len(p) : p[i] = "/"
  THEN CHOOSE i \in 1..Len(p) : p[i] = "/" /\ \A j \in (i + 1)..Len(p) : p[j] # "/"
  ELSE 0

\* (Mutant: the reference is appended to the base path, with a "/" between
\* them when the base path does not end with one.)
ResolveReferenceJoin(base, ref) ==
  LET p == base.Path
      full == IF Len(p) > 0 /\ p[Len(p)] = "/" THEN p \o ref
              ELSE p \o <<"/">> \o ref
  IN [Scheme |-> base.Scheme, Host |-> base.Host, Path |-> full]

\* URL.ResolveReference for a reference that is a relative path without
\* dot segments: the base path up to and including its last "/", then the
\* reference; the result is rooted.
ResolveReference(base, ref) ==
  LET full == SubSeq(base.Path, 1, LastIndexSlash(base.Path)) \o ref
  IN [Scheme |-> base.Scheme, Host |-> base.Host,
      Path |-> IF Len(full) > 0 /\ full[1] = "/" THEN full ELSE <<"/">> \o full]

\* URL.String.
URLString(u) == u.Scheme \o <<":","/","/">> \o u.Host \o u.Path

\* The error of url.Parse.
URLError(rawurl, why) ==
  [id |-> "url.Error", msg |-> <<"p","a","r","s","e"," ">> \o rawurl \o <<":"," ">> \o why]

LowerSeq == <<"a","b","c","d","e","f","g","h","i","j","k","l","m","n","o","p","q","r","s","t","u","v","w","x","y","z">>

UpperSeq == <<"A","B","C","D","E","F","G","H","I","J","K","L","M","N","O","P","Q","R","S","T","U","V","W","X","Y","Z">>

LowerLetters == {LowerSeq[i] : i \in 1..Len(LowerSeq)}

UpperLetters == {UpperSeq[i] : i \in 1..Len(UpperSeq)}

SchemeMarks == {"0","1","2","3","4","5","6","7","8","9","+","-","."}

\* The first position of character c in s at or after position from, or 0.
IndexFrom(s, c, from) ==
  IF \E i \in from..Len(s) : s[i] = c
  THEN CHOOSE i \in from..Len(s) : s[i] = c /\ \A j \in from..(i - 1) : s[j] # c
  ELSE 0

\* url.getScheme: the position of the colon that ends the scheme; 0 when
\* the text has no scheme; -1 when it starts with a colon (an error).
SchemeEnd(rawurl) ==
  LET stops == {i \in 1..Len(rawurl) :
                  \/ rawurl[i] \notin LowerLetters \cup UpperLetters \cup SchemeMarks
                  \/ i = 1 /\ rawurl[i] \in SchemeMarks}
  IN IF stops = {} THEN 0
     ELSE LET i == CHOOSE k \in stops : \A j \in stops : k <= j
          IN IF rawurl[i] # ":" THEN 0
             ELSE IF i = 1 THEN -1
             ELSE i

\* strings.ToLower.
ToLower(s) ==
  [i \in 1..Len(s) |->
     IF s[i] \in UpperLetters
     THEN LowerSeq[CHOOSE k \in 1..Len(UpperSeq) : UpperSeq[k] = s[i]]
     ELSE s[i]]

\* url.Parse on a text without user information, query or fragment: the
\* scheme, then after "//" the host up to the next "/", then the path.
\* It fails on a text that starts with a colon, on a host that holds a
\* space, and on a first path segment with a colon when there is no scheme.
ParseURL(rawurl) ==
  LET e == SchemeEnd(rawurl)
      scheme == IF e > 0 THEN ToLower(SubSeq(rawurl, 1, e - 1)) ELSE <<>>
      rest == IF e > 0 THEN SubSeq(rawurl, e + 1, Len(rawurl)) ELSE rawurl
      hasHost == HasAt(rest, 1, <<"/","/">>)
      slash == IF hasHost THEN IndexFrom(rest, "/", 3) ELSE 0
      host == IF ~hasHost THEN <<>>
              ELSE IF slash = 0 THEN SubSeq(rest, 3, Len(rest))
              ELSE SubSeq(rest, 3, slash - 1)
      path == IF ~hasHost THEN rest
              ELSE IF slash = 0 THEN <<>>
              ELSE SubSeq(rest, slash, Len(rest))
      seg == IF IndexFrom(rest, "/", 1) = 0 THEN rest
             ELSE SubSeq(rest, 1, IndexFrom(rest, "/", 1) - 1)
      NoURL == [isnil |-> TRUE]
  IN IF e = -1
     THEN [url |-> NoURL, err |-> URLError(rawurl, <<"m","i","s","s","i","n","g"," ","p","r","o","t","o","c","o","l"," ","s","c","h","e","m","e">>)]
     ELSE IF e = 0 /\ ~HasAt(rest, 1, <<"/">>) /\ IndexFrom(seg, ":", 1) # 0
     THEN [url |-> NoURL,
           err |-> URLError(rawurl, <<"f","i","r","s","t"," ","p","a","t","h"," ","s","e","g","m","e","n","t"," ","i","n"," ","U","R","L"," ","c","a","n","n","o","t"," ","c","o","n","t","a","i","n"," ","c","o","l","o","n">>)]
     ELSE IF IndexFrom(host, " ", 1) # 0
     THEN [url |-> NoURL,
           err |-> URLError(rawurl, <<"i","n","v","a","l","i","d"," ","c","h","a","r","a","c","t","e","r"," ">> \o <<"\"", " ", "\"">> \o <<" ","i","n"," ","h","o","s","t"," ","n","a","m","e">>)]
     ELSE [url |-> [Scheme |-> scheme, Host |-> host, Path |-> path],
           err |-> NoErr]

\* (Mutant: the error of url.Parse is dropped and a client is returned.)
NewClientResultLenient(authToken, defaultEndpointURL) ==
  LET parsed == ParseURL(defaultEndpointURL)
  IN [client |-> [AuthToken |-> authToken,
                  EndpointURL |-> IF parsed.err = NoErr THEN parsed.url
                                  ELSE [Scheme |-> <<>>, Host |-> <<>>, Path |-> <<>>]],
      err |-> NoErr]

\* NewClient: the client, or no client and the error of url.Parse.
NewClientResult(authToken, defaultEndpointURL) ==
  LET parsed == ParseURL(defaultEndpointURL)
  IN IF parsed.err # NoErr
     THEN [client |-> [isnil |-> TRUE], err |-> parsed.err]
     ELSE [client |-> [AuthToken |-> authToken, EndpointURL |-> parsed.url],
           err |-> NoErr]

\* textproto.CanonicalMIMEHeaderKey on the header names in use.
CanonicalHeaderKey(k) == IF k = "ETag" THEN "Etag" ELSE k

NoHeader == [k \in {} |-> <<>>]

\* Header.Add.
HeaderAdd(h, key, value) ==
  LET c == CanonicalHeaderKey(key)
  IN IF c \in DOMAIN h THEN [h EXCEPT ![c] = Append(@, value)]
     ELSE h @@ (c :> <<value>>)

\* (Mutant: the key is looked up as written, not in its canonical form.)
HeaderGetExact(h, key) ==
  IF key \in DOMAIN h /\ Len(h[key]) > 0 THEN h[key][1] ELSE <<>>

\* Header.Get: the first value of the key, or "".
HeaderGet(h, key) ==
  LET c == CanonicalHeaderKey(key)
  IN IF c \in DOMAIN h /\ Len(h[c]) > 0 THEN h[c][1] ELSE <<>>

\* A request without a body (http.NewRequest with a nil body).
NoBody == [t |-> "none", v |-> 0]

NewRequest(method, url, body) ==
  [method |-> method, url |-> url, header |-> NoHeader, body |-> body]

AddHeader(req, key, value) ==
  [req EXCEPT !.header = HeaderAdd(req.header, key, value)]

StatusOK == 200
StatusCreated == 201
StatusBadRequest == 400
StatusUnauthorized == 401
StatusNotFound == 404

(***************************************************************************)
(* What a function returns.  res is the resource pointed to, or Nil; etag  *)
(* is the string Get returns besides (empty for the other functions);      *)
(* panicked says the call ended in a run-time panic (a nil pointer         *)
(* dereference) instead of returning.                                      *)
(***************************************************************************)
Nil == [isnil |-> TRUE]

Returns(res, etag, err) ==
  [res |-> res, etag |-> etag, err |-> err, panicked |-> FALSE]

Panics == [res |-> Nil, etag |-> <<>>, err |-> NoErr, panicked |-> TRUE]

(***************************************************************************)
(* The messages of the errors the functions build with fmt.Errorf.         *)
(***************************************************************************)
\* (Mutant: the operand of the verb is forgotten.)
UnknownResponseNoCode(codeText) ==
  <<"U","n","k","n","o","w","n"," ","R","e","s","p","o","n","s","e"," ","w","i","t","h"," ","S","u","m","o"," ","L","o","g","i","c",":"," ","U+0060","%","!","d","(","M","I","S","S","I","N","G",")","U+0060">>

\* "Unknown Response with Sumo Logic: `%d`" and, in the collector
\* functions, "...`%s`", each applied to resp.StatusCode.
UnknownResponse(codeText) ==
  <<"U","n","k","n","o","w","n"," ","R","e","s","p","o","n","s","e"," ","w","i","t","h"," ","S","u","m","o"," ","L","o","g","i","c",":"," ","U+0060">> \o codeText \o <<"U+0060">>

\* "Bad Request. Please check if a collector with this name `%` already
\* exists" applied to collector.Name: the verb is the grave accent after the
\* percent sign, which no type supports.
CollectorBadRequest(name) ==
  <<"B","a","d"," ","R","e","q","u","e","s","t","."," ","P","l","e","a","s","e"," ","c","h","e","c","k"," ","i","f"," ","a"," ","c","o","l","l","e","c","t","o","r"," ","w","i","t","h"," ","t","h","i","s"," ","n","a","m","e"," ","U+0060">>
    \o FmtBadVerbString("U+0060", name) \o <<" ","a","l","r","e","a","d","y"," ","e","x","i","s","t","s">>

\* (Mutant: the hint without the name.)
SourceBadRequestNoName(name) ==
  <<"B","a","d"," ","R","e","q","u","e","s","t","."," ","P","l","e","a","s","e"," ","c","h","e","c","k"," ","i","f"," ","a"," ","s","o","u","r","c","e"," ","w","i","t","h"," ","t","h","i","s"," ","n","a","m","e"," ","a","l","r","e","a","d","y"," ","e","x","i","s","t","s">>

\* "Bad Request. Please check if a source with this name `%s` already
\* exists" applied to source.Name.
SourceBadRequest(name) ==
  <<"B","a","d"," ","R","e","q","u","e","s","t","."," ","P","l","e","a","s","e"," ","c","h","e","c","k"," ","i","f"," ","a"," ","s","o","u","r","c","e"," ","w","i","t","h"," ","t","h","i","s"," ","n","a","m","e"," ","U+0060">>
    \o FmtS(name) \o <<"U+0060"," ","a","l","r","e","a","d","y"," ","e","x","i","s","t","s">>

\* "Bad Request. %s" applied to a message.
BadRequestMessage(msg) == <<"B","a","d"," ","R","e","q","u","e","s","t","."," ">> \o FmtS(msg)

\* "Basic "+s.AuthToken
\* (Mutant: the token alone, without the scheme.)
BasicAuthNoScheme(s) == s.AuthToken

BasicAuth(s) == <<"B","a","s","i","c"," ">> \o s.AuthToken

\* The request URL of a path relative to the client's endpoint.
EndpointFor(s, rel) == URLString(ResolveReference(s.EndpointURL, rel))

CollectorsPath == <<"c","o","l","l","e","c","t","o","r","s">>

CollectorPath(id) == <<"c","o","l","l","e","c","t","o","r","s","/">> \o FmtD(id)

SourcesPath(collectorID) == <<"c","o","l","l","e","c","t","o","r","s","/">> \o FmtD(collectorID) \o <<"/","s","o","u","r","c","e","s">>

\* (Mutant: the two identifiers in the other order.)
SourcePathSwapped(collectorID, id) ==
  <<"c","o","l","l","e","c","t","o","r","s","/">> \o FmtD(id) \o <<"/","s","o","u","r","c","e","s","/">> \o FmtD(collectorID)

SourcePath(collectorID, id) ==
  <<"c","o","l","l","e","c","t","o","r","s","/">> \o FmtD(collectorID) \o <<"/","s","o","u","r","c","e","s","/">> \o FmtD(id)

(***************************************************************************)
(* hosted_collector.go                                                     *)
(***************************************************************************)
GetHostedCollectorRequest(s, id) ==
  AddHeader(NewRequest("GET", EndpointFor(s, CollectorPath(id)), NoBody),
            "Authorization", BasicAuth(s))

GetHostedCollectorResult(o) ==
  IF o.err # NoErr THEN Returns(Nil, <<>>, o.err)
  ELSE
  CASE o.resp.StatusCode = StatusOK ->
         LET cr == Unmarshal("CollectorRequest", o.resp.Body, Zero("CollectorRequest"))
         IN IF cr.err # NoErr THEN Returns(Nil, <<>>, cr.err)
            ELSE IF cr.isnil THEN Panics
            ELSE Returns(cr.val.Collector, HeaderGet(o.resp.Header, "ETag"), NoErr)
    [] o.resp.StatusCode = StatusUnauthorized ->
         Returns(Nil, <<>>, ErrClientAuthenticationError)
    [] o.resp.StatusCode = StatusNotFound ->
         Returns(Nil, <<>>, ErrCollectorNotFound)
    [] OTHER ->
         Returns(Nil, <<>>,
                 Errorf(UnknownResponse(FmtBadVerbInt("s", o.resp.StatusCode))))

CreateHostedCollectorRequest(s, collector) ==
  AddHeader(
    AddHeader(NewRequest("POST", EndpointFor(s, CollectorsPath),
                         Marshal("CollectorRequest", [Collector |-> collector])),
              "Content-Type", <<"a","p","p","l","i","c","a","t","i","o","n","/","j","s","o","n">>),
    "Authorization", BasicAuth(s))

CreateHostedCollectorResult(collector, o) ==
  IF o.err # NoErr THEN Returns(Nil, <<>>, o.err)
  ELSE
  CASE o.resp.StatusCode = StatusCreated ->
         LET cr == Unmarshal("CollectorRequest", o.resp.Body, Zero("CollectorRequest"))
         IN IF cr.err # NoErr THEN Returns(Nil, <<>>, cr.err)
            ELSE IF cr.isnil THEN Panics
            ELSE Returns(cr.val.Collector, <<>>, NoErr)
    [] o.resp.StatusCode = StatusUnauthorized ->
         Returns(Nil, <<>>, ErrClientAuthenticationError)
    [] o.resp.StatusCode = StatusBadRequest ->
         Returns(Nil, <<>>, Errorf(CollectorBadRequest(collector.Name)))
    [] OTHER ->
         Returns(Nil, <<>>,
                 Errorf(UnknownResponse(FmtBadVerbInt("s", o.resp.StatusCode))))

\* (Mutant: the PUT without a Content-Type header.)
UpdateHostedCollectorRequestNoContentType(s, collector, etag) ==
  AddHeader(
    AddHeader(NewRequest("PUT", EndpointFor(s, CollectorPath(collector.ID)),
                         Marshal("CollectorRequest", [Collector |-> collector])),
              "Authorization", BasicAuth(s)),
    "If-Match", etag)

UpdateHostedCollectorRequest(s, collector, etag) ==
  AddHeader(
    AddHeader(
      AddHeader(NewRequest("PUT", EndpointFor(s, CollectorPath(collector.ID)),
                           Marshal("CollectorRequest", [Collector |-> collector])),
                "Content-Type", <<"a","p","p","l","i","c","a","t","i","o","n","/","j","s","o","n">>),
      "Authorization", BasicAuth(s)),
    "If-Match", etag)

\* (Mutant: an update that reports 404 as ErrCollectorNotFound.)
UpdateHostedCollectorResultNotFound(collector, o) ==
  IF o.err # NoErr THEN Returns(Nil, <<>>, o.err)
  ELSE
  CASE o.resp.StatusCode = StatusOK ->
         LET cr == Unmarshal("CollectorRequest", o.resp.Body, Zero("CollectorRequest"))
         IN IF cr.err # NoErr THEN Returns(Nil, <<>>, cr.err)
            ELSE IF cr.isnil THEN Panics
            ELSE Returns(cr.val.Collector, <<>>, NoErr)
    [] o.resp.StatusCode = StatusUnauthorized ->
         Returns(Nil, <<>>, ErrClientAuthenticationError)
    [] o.resp.StatusCode = StatusNotFound ->
         Returns(Nil, <<>>, ErrCollectorNotFound)
    [] o.resp.StatusCode = StatusBadRequest ->
         Returns(Nil, <<>>, Errorf(CollectorBadRequest(collector.Name)))
    [] OTHER ->
         Returns(Nil, <<>>,
                 Errorf(UnknownResponse(FmtBadVerbInt("s", o.resp.StatusCode))))

UpdateHostedCollectorResult(collector, o) ==
  IF o.err # NoErr THEN Returns(Nil, <<>>, o.err)
  ELSE
  CASE o.resp.StatusCode = StatusOK ->
         LET cr == Unmarshal("CollectorRequest", o.resp.Body, Zero("CollectorRequest"))
         IN IF cr.err # NoErr THEN Returns(Nil, <<>>, cr.err)
            ELSE IF cr.isnil THEN Panics
            ELSE Returns(cr.val.Collector, <<>>, NoErr)
    [] o.resp.StatusCode = StatusUnauthorized ->
         Returns(Nil, <<>>, ErrClientAuthenticationError)
    [] o.resp.StatusCode = StatusBadRequest ->
         Returns(Nil, <<>>, Errorf(CollectorBadRequest(collector.Name)))
    [] OTHER ->
         Returns(Nil, <<>>,
                 Errorf(UnknownResponse(FmtBadVerbInt("s", o.resp.StatusCode))))

DeleteHostedCollectorRequest(s, id) ==
  AddHeader(NewRequest("DELETE", EndpointFor(s, CollectorPath(id)), NoBody),
            "Authorization", BasicAuth(s))

DeleteHostedCollectorResult(o) ==
  IF o.err # NoErr THEN Returns(Nil, <<>>, o.err)
  ELSE
  CASE o.resp.StatusCode = StatusOK ->
         Returns(Nil, <<>>, NoErr)
    [] o.resp.StatusCode = StatusNotFound ->
         Returns(Nil, <<>>, ErrCollectorNotFound)
    [] o.resp.StatusCode = StatusUnauthorized ->
         Returns(Nil, <<>>, ErrClientAuthenticationError)
    [] OTHER ->
         Returns(Nil, <<>>,
                 Errorf(UnknownResponse(FmtBadVerbInt("s", o.resp.StatusCode))))

(***************************************************************************)
(* http_source.go (src/unnamed/part_001)                                   *)
(***************************************************************************)
GetHTTPSourceRequest(s, collectorID, id) ==
  AddHeader(NewRequest("GET", EndpointFor(s, SourcePath(collectorID, id)), NoBody),
            "Authorization", BasicAuth(s))

GetHTTPSourceResult(o) ==
  IF o.err # NoErr THEN Returns(Nil, <<>>, o.err)
  ELSE
  CASE o.resp.StatusCode = StatusOK ->
         LET r == Unmarshal("HTTPSourceRequest", o.resp.Body, Zero("HTTPSourceRequest"))
         IN IF r.err # NoErr THEN Returns(Nil, <<>>, r.err)
            ELSE IF r.isnil THEN Panics
            ELSE Returns(r.val.Source, HeaderGet(o.resp.Header, "ETag"), NoErr)
    [] o.resp.StatusCode = StatusUnauthorized ->
         Returns(Nil, <<>>, ErrClientAuthenticationError)
    [] o.resp.StatusCode = StatusNotFound ->
         Returns(Nil, <<>>, ErrSourceNotFound)
    [] OTHER ->
         Returns(Nil, <<>>, Errorf(UnknownResponse(FmtD(o.resp.StatusCode))))

\* (Mutant: the resource is sent bare, outside its envelope, and without
\* its name.)
CreateHTTPSourceRequestBare(s, collectorID, source) ==
  AddHeader(
    AddHeader(NewRequest("POST", EndpointFor(s, SourcesPath(collectorID)),
                         Marshal("HTTPSource", [source EXCEPT !.Name = <<>>])),
              "Content-Type", <<"a","p","p","l","i","c","a","t","i","o","n","/","j","s","o","n">>),
    "Authorization", BasicAuth(s))

CreateHTTPSourceRequest(s, collectorID, source) ==
  AddHeader(
    AddHeader(NewRequest("POST", EndpointFor(s, SourcesPath(collectorID)),
                         Marshal("HTTPSourceRequest", [Source |-> source])),
              "Content-Type", <<"a","p","p","l","i","c","a","t","i","o","n","/","j","s","o","n">>),
    "Authorization", BasicAuth(s))

CreateHTTPSourceResult(source, o) ==
  IF o.err # NoErr THEN Returns(Nil, <<>>, o.err)
  ELSE
  CASE o.resp.StatusCode = StatusCreated ->
         LET r == Unmarshal("HTTPSourceRequest", o.resp.Body, Zero("HTTPSourceRequest"))
         IN IF r.err # NoErr THEN Returns(Nil, <<>>, r.err)
            ELSE IF r.isnil THEN Panics
            ELSE Returns(r.val.Source, <<>>, NoErr)
    [] o.resp.StatusCode = StatusUnauthorized ->
         Returns(Nil, <<>>, ErrClientAuthenticationError)
    [] o.resp.StatusCode = StatusBadRequest ->
         \* e is new(Error) and the body is never decoded into it
         Returns(Nil, <<>>, Errorf(BadRequestMessage(Zero("Error").Message)))
    [] OTHER ->
         Returns(Nil, <<>>, Errorf(UnknownResponse(FmtD(o.resp.StatusCode))))

\* (Mutant: the PUT carries no If-Match.)
UpdateHTTPSourceRequestNoIfMatch(s, collectorID, source, etag) ==
  AddHeader(
    AddHeader(NewRequest("PUT", EndpointFor(s, SourcePath(collectorID, source.ID)),
                         Marshal("HTTPSourceRequest", [Source |-> source])),
              "Content-Type", <<"a","p","p","l","i","c","a","t","i","o","n","/","j","s","o","n">>),
    "Authorization", BasicAuth(s))

UpdateHTTPSourceRequest(s, collectorID, source, etag) ==
  AddHeader(
    AddHeader(
      AddHeader(NewRequest("PUT", EndpointFor(s, SourcePath(collectorID, source.ID)),
                           Marshal("HTTPSourceRequest", [Source |-> source])),
                "Content-Type", <<"a","p","p","l","i","c","a","t","i","o","n","/","j","s","o","n">>),
      "Authorization", BasicAuth(s)),
    "If-Match", etag)

UpdateHTTPSourceResult(source, o) ==
  IF o.err # NoErr THEN Returns(Nil, <<>>, o.err)
  ELSE
  CASE o.resp.StatusCode = StatusOK ->
         LET r == Unmarshal("HTTPSourceRequest", o.resp.Body, Zero("HTTPSourceRequest"))
         IN IF r.err # NoErr THEN Returns(Nil, <<>>, r.err)
            ELSE IF r.isnil THEN Panics
            ELSE Returns(r.val.Source, <<>>, NoErr)
    [] o.resp.StatusCode = StatusUnauthorized ->
         Returns(Nil, <<>>, ErrClientAuthenticationError)
    [] o.resp.StatusCode = StatusBadRequest ->
         Returns(Nil, <<>>, Errorf(SourceBadRequest(source.Name)))
    [] OTHER ->
         Returns(Nil, <<>>, Errorf(UnknownResponse(FmtD(o.resp.StatusCode))))

DeleteHTTPSourceRequest(s, collectorID, id) ==
  AddHeader(NewRequest("DELETE", EndpointFor(s, SourcePath(collectorID, id)), NoBody),
            "Authorization", BasicAuth(s))

\* (Mutant: the error of the transport is wrapped in a new error.)
DeleteHTTPSourceResultWrapped(o) ==
  IF o.err # NoErr THEN Returns(Nil, <<>>, Errorf(<<"R","e","q","u","e","s","t"," ","f","a","i","l","e","d",":"," ">> \o o.err.msg))
  ELSE
  CASE o.resp.StatusCode = StatusOK ->
         Returns(Nil, <<>>, NoErr)
    [] o.resp.StatusCode = StatusNotFound ->
         Returns(Nil, <<>>, ErrSourceNotFound)
    [] o.resp.StatusCode = StatusUnauthorized ->
         Returns(Nil, <<>>, ErrClientAuthenticationError)
    [] OTHER ->
         Returns(Nil, <<>>, Errorf(UnknownResponse(FmtD(o.resp.StatusCode))))

DeleteHTTPSourceResult(o) ==
  IF o.err # NoErr THEN Returns(Nil, <<>>, o.err)
  ELSE
  CASE o.resp.StatusCode = StatusOK ->
         Returns(Nil, <<>>, NoErr)
    [] o.resp.StatusCode = StatusNotFound ->
         Returns(Nil, <<>>, ErrSourceNotFound)
    [] o.resp.StatusCode = StatusUnauthorized ->
         Returns(Nil, <<>>, ErrClientAuthenticationError)
    [] OTHER ->
         Returns(Nil, <<>>, Errorf(UnknownResponse(FmtD(o.resp.StatusCode))))

(***************************************************************************)
(* aws_cloudtrail_source.go                                                *)
(***************************************************************************)
GetAWSCloudTrailSourceRequest(s, collectorID, id) ==
  AddHeader(NewRequest("GET", EndpointFor(s, SourcePath(collectorID, id)), NoBody),
            "Authorization", BasicAuth(s))

\* (Mutant: a Get answers from what an earlier Get returned.)
GetAWSCloudTrailSourceResultCached(o) ==
  IF held # [isnil |-> TRUE]
  THEN Returns(held.res, held.etag, NoErr)
  ELSE
    IF o.err # NoErr THEN Returns(Nil, <<>>, o.err)
    ELSE
    CASE o.resp.StatusCode = StatusOK ->
           LET r == Unmarshal("AWSCloudTrailSourceRequest", o.resp.Body, Zero("AWSCloudTrailSourceRequest"))
           IN IF r.err # NoErr THEN Returns(Nil, <<>>, r.err)
              ELSE IF r.isnil THEN Panics
              ELSE Returns(r.val.Source, HeaderGet(o.resp.Header, "ETag"), NoErr)
      [] o.resp.StatusCode = StatusUnauthorized ->
           Returns(Nil, <<>>, ErrClientAuthenticationError)
      [] o.resp.StatusCode = StatusNotFound ->
           Returns(Nil, <<>>, ErrSourceNotFound)
      [] OTHER ->
           Returns(Nil, <<>>, Errorf(UnknownResponse(FmtD(o.resp.StatusCode))))

GetAWSCloudTrailSourceResult(o) ==
  IF o.err # NoErr THEN Returns(Nil, <<>>, o.err)
  ELSE
  CASE o.resp.StatusCode = StatusOK ->
         LET r == Unmarshal("AWSCloudTrailSourceRequest", o.resp.Body, Zero("AWSCloudTrailSourceRequest"))
         IN IF r.err # NoErr THEN Returns(Nil, <<>>, r.err)
            ELSE IF r.isnil THEN Panics
            ELSE Returns(r.val.Source, HeaderGet(o.resp.Header, "ETag"), NoErr)
    [] o.resp.StatusCode = StatusUnauthorized ->
         Returns(Nil, <<>>, ErrClientAuthenticationError)
    [] o.resp.StatusCode = StatusNotFound ->
         Returns(Nil, <<>>, ErrSourceNotFound)
    [] OTHER ->
         Returns(Nil, <<>>, Errorf(UnknownResponse(FmtD(o.resp.StatusCode))))

CreateAWSCloudTrailSourceRequest(s, collectorID, source) ==
  AddHeader(
    AddHeader(NewRequest("POST", EndpointFor(s, SourcesPath(collectorID)),
                         Marshal("AWSCloudTrailSourceRequest", [Source |-> source])),
              "Content-Type", <<"a","p","p","l","i","c","a","t","i","o","n","/","j","s","o","n">>),
    "Authorization", BasicAuth(s))

\* (Mutant: a body that does not decode is reported as an unknown response.)
CreateAWSCloudTrailSourceResultDecodeAsStatus(source, o) ==
  IF o.err # NoErr THEN Returns(Nil, <<>>, o.err)
  ELSE
  CASE o.resp.StatusCode = StatusCreated ->
         LET r == Unmarshal("AWSCloudTrailSourceRequest", o.resp.Body, Zero("AWSCloudTrailSourceRequest"))
         IN IF r.err # NoErr
            THEN Returns(Nil, <<>>, Errorf(UnknownResponse(FmtD(o.resp.StatusCode))))
            ELSE IF r.isnil THEN Panics
            ELSE Returns(r.val.Source, <<>>, NoErr)
    [] o.resp.StatusCode = StatusUnauthorized ->
         Returns(Nil, <<>>, ErrClientAuthenticationError)
    [] o.resp.StatusCode = StatusBadRequest ->
         LET e == Unmarshal("Error", o.resp.Body, Zero("Error"))
         IN IF e.err # NoErr
            THEN Returns(Nil, <<>>, Errorf(SourceBadRequest(source.Name)))
            ELSE IF e.isnil THEN Panics
            ELSE IF \/ e.val.Message = MsgCannotAuthenticate
                    \/ e.val.Message = MsgInvalidIAMRole
            THEN Returns(Nil, <<>>, ErrAwsAuthenticationError)
            ELSE Returns(Nil, <<>>, Errorf(BadRequestMessage(e.val.Message)))
    [] OTHER ->
         Returns(Nil, <<>>, Errorf(UnknownResponse(FmtD(o.resp.StatusCode))))

CreateAWSCloudTrailSourceResult(source, o) ==
  IF o.err # NoErr THEN Returns(Nil, <<>>, o.err)
  ELSE
  CASE o.resp.StatusCode = StatusCreated ->
         LET r == Unmarshal("AWSCloudTrailSourceRequest", o.resp.Body, Zero("AWSCloudTrailSourceRequest"))
         IN IF r.err # NoErr THEN Returns(Nil, <<>>, r.err)
            ELSE IF r.isnil THEN Panics
            ELSE Returns(r.val.Source, <<>>, NoErr)
    [] o.resp.StatusCode = StatusUnauthorized ->
         Returns(Nil, <<>>, ErrClientAuthenticationError)
    [] o.resp.StatusCode = StatusBadRequest ->
         LET e == Unmarshal("Error", o.resp.Body, Zero("Error"))
         IN IF e.err # NoErr
            THEN Returns(Nil, <<>>, Errorf(SourceBadRequest(source.Name)))
            ELSE IF e.isnil THEN Panics
            ELSE IF \/ e.val.Message = MsgCannotAuthenticate
                    \/ e.val.Message = MsgInvalidIAMRole
            THEN Returns(Nil, <<>>, ErrAwsAuthenticationError)
            ELSE Returns(Nil, <<>>, Errorf(BadRequestMessage(e.val.Message)))
    [] OTHER ->
         Returns(Nil, <<>>, Errorf(UnknownResponse(FmtD(o.resp.StatusCode))))

UpdateAWSCloudTrailSourceRequest(s, collectorID, source, etag) ==
  AddHeader(
    AddHeader(
      AddHeader(NewRequest("PUT", EndpointFor(s, SourcePath(collectorID, source.ID)),
                           Marshal("AWSCloudTrailSourceRequest", [Source |-> source])),
                "Content-Type", <<"a","p","p","l","i","c","a","t","i","o","n","/","j","s","o","n">>),
      "Authorization", BasicAuth(s)),
    "If-Match", etag)

UpdateAWSCloudTrailSourceResult(source, o) ==
  IF o.err # NoErr THEN Returns(Nil, <<>>, o.err)
  ELSE
  CASE o.resp.StatusCode = StatusOK ->
         LET r == Unmarshal("AWSCloudTrailSourceRequest", o.resp.Body, Zero("AWSCloudTrailSourceRequest"))
         IN IF r.err # NoErr THEN Returns(Nil, <<>>, r.err)
            ELSE IF r.isnil THEN Panics
            ELSE Returns(r.val.Source, <<>>, NoErr)
    [] o.resp.StatusCode = StatusUnauthorized ->
         Returns(Nil, <<>>, ErrClientAuthenticationError)
    [] o.resp.StatusCode = StatusBadRequest ->
         \* the decoder's error is overwritten unread
         LET e == Unmarshal("Error", o.resp.Body, Zero("Error"))
         IN IF e.isnil THEN Panics
            ELSE IF \/ e.val.Message = MsgCannotAuthenticate
                    \/ e.val.Message = MsgInvalidIAMRole
            THEN Returns(Nil, <<>>, ErrAwsAuthenticationError)
            ELSE Returns(Nil, <<>>, Errorf(SourceBadRequest(source.Name)))
    [] OTHER ->
         Returns(Nil, <<>>, Errorf(UnknownResponse(FmtD(o.resp.StatusCode))))

DeleteAWSCloudTrailSourceRequest(s, collectorID, id) ==
  AddHeader(NewRequest("DELETE", EndpointFor(s, SourcePath(collectorID, id)), NoBody),
            "Authorization", BasicAuth(s))

\* (Mutant: a delete of a missing source is taken for a success.)
DeleteAWSCloudTrailSourceResultIdempotent(o) ==
  IF o.err # NoErr THEN Returns(Nil, <<>>, o.err)
  ELSE
  CASE o.resp.StatusCode \in {StatusOK, StatusNotFound} ->
         Returns(Nil, <<>>, NoErr)
    [] o.resp.StatusCode = StatusUnauthorized ->
         Returns(Nil, <<>>, ErrClientAuthenticationError)
    [] OTHER ->
         Returns(Nil, <<>>, Errorf(UnknownResponse(FmtD(o.resp.StatusCode))))

DeleteAWSCloudTrailSourceResult(o) ==
  IF o.err # NoErr THEN Returns(Nil, <<>>, o.err)
  ELSE
  CASE o.resp.StatusCode = StatusOK ->
         Returns(Nil, <<>>, NoErr)
    [] o.resp.StatusCode = StatusNotFound ->
         Returns(Nil, <<>>, ErrSourceNotFound)
    [] o.resp.StatusCode = StatusUnauthorized ->
         Returns(Nil, <<>>, ErrClientAuthenticationError)
    [] OTHER ->
         Returns(Nil, <<>>, Errorf(UnknownResponse(FmtD(o.resp.StatusCode))))

(***************************************************************************)
(* aws_log_source.go                                                       *)
(***************************************************************************)
GetAWSLogSourceRequest(s, collectorID, id) ==
  AddHeader(NewRequest("GET", EndpointFor(s, SourcePath(collectorID, id)), NoBody),
            "Authorization", BasicAuth(s))

GetAWSLogSourceResult(o) ==
  IF o.err # NoErr THEN Returns(Nil, <<>>, o.err)
  ELSE
  CASE o.resp.StatusCode = StatusOK ->
         LET r == Unmarshal("AWSLogSourceRequest", o.resp.Body, Zero("AWSLogSourceRequest"))
         IN IF r.err # NoErr THEN Returns(Nil, <<>>, r.err)
            ELSE IF r.isnil THEN Panics
            ELSE Returns(r.val.Source, HeaderGet(o.resp.Header, "ETag"), NoErr)
    [] o.resp.StatusCode = StatusUnauthorized ->
         Returns(Nil, <<>>, ErrClientAuthenticationError)
    [] o.resp.StatusCode = StatusNotFound ->
         Returns(Nil, <<>>, ErrSourceNotFound)
    [] OTHER ->
         Returns(Nil, <<>>, Errorf(UnknownResponse(FmtD(o.resp.StatusCode))))

CreateAWSLogSourceRequest(s, collectorID, source) ==
  AddHeader(
    AddHeader(NewRequest("POST", EndpointFor(s, SourcesPath(collectorID)),
                         Marshal("AWSLogSourceRequest", [Source |-> source])),
              "Content-Type", <<"a","p","p","l","i","c","a","t","i","o","n","/","j","s","o","n">>),
    "Authorization", BasicAuth(s))

CreateAWSLogSourceResult(source, o) ==
  IF o.err # NoErr THEN Returns(Nil, <<>>, o.err)
  ELSE
  CASE o.resp.StatusCode = StatusCreated ->
         LET r == Unmarshal("AWSLogSourceRequest", o.resp.Body, Zero("AWSLogSourceRequest"))
         IN IF r.err # NoErr THEN Returns(Nil, <<>>, r.err)
            ELSE IF r.isnil THEN Panics
            ELSE Returns(r.val.Source, <<>>, NoErr)
    [] o.resp.StatusCode = StatusUnauthorized ->
         Returns(Nil, <<>>, ErrClientAuthenticationError)
    [] o.resp.StatusCode = StatusBadRequest ->
         LET e == Unmarshal("Error", o.resp.Body, Zero("Error"))
         IN IF e.err # NoErr
            THEN Returns(Nil, <<>>, Errorf(SourceBadRequest(source.Name)))
            ELSE IF e.isnil THEN Panics
            ELSE IF \/ e.val.Message = MsgCannotAuthenticate
                    \/ e.val.Message = MsgInvalidIAMRole
            THEN Returns(Nil, <<>>, ErrAwsAuthenticationError)
            ELSE IF MatchS3NotReadable(e.val.Message)
            THEN Returns(Nil, <<>>, ErrAwsAuthenticationError)
            ELSE Returns(Nil, <<>>, Errorf(BadRequestMessage(e.val.Message)))
    [] OTHER ->
         Returns(Nil, <<>>, Errorf(UnknownResponse(FmtD(o.resp.StatusCode))))

\* (Mutant: the PUT addressed to the collector named in the resource.)
UpdateAWSLogSourceRequestOwnCollector(s, collectorID, source, etag) ==
  AddHeader(
    AddHeader(
      AddHeader(NewRequest("PUT", EndpointFor(s, SourcePath(source.CollectorID, source.ID)),
                           Marshal("AWSLogSourceRequest", [Source |-> source])),
                "Content-Type", <<"a","p","p","l","i","c","a","t","i","o","n","/","j","s","o","n">>),
      "Authorization", BasicAuth(s)),
    "If-Match", etag)

UpdateAWSLogSourceRequest(s, collectorID, source, etag) ==
  AddHeader(
    AddHeader(
      AddHeader(NewRequest("PUT", EndpointFor(s, SourcePath(collectorID, source.ID)),
                           Marshal("AWSLogSourceRequest", [Source |-> source])),
                "Content-Type", <<"a","p","p","l","i","c","a","t","i","o","n","/","j","s","o","n">>),
      "Authorization", BasicAuth(s)),
    "If-Match", etag)

UpdateAWSLogSourceResult(source, o) ==
  IF o.err # NoErr THEN Returns(Nil, <<>>, o.err)
  ELSE
  CASE o.resp.StatusCode = StatusOK ->
         LET r == Unmarshal("AWSLogSourceRequest", o.resp.Body, Zero("AWSLogSourceRequest"))
         IN IF r.err # NoErr THEN Returns(Nil, <<>>, r.err)
            ELSE IF r.isnil THEN Panics
            ELSE Returns(r.val.Source, <<>>, NoErr)
    [] o.resp.StatusCode = StatusUnauthorized ->
         Returns(Nil, <<>>, ErrClientAuthenticationError)
    [] o.resp.StatusCode = StatusBadRequest ->
         \* the decoder's error is overwritten unread
         LET e == Unmarshal("Error", o.resp.Body, Zero("Error"))
         IN IF e.isnil THEN Panics
            ELSE IF \/ e.val.Message = MsgCannotAuthenticate
                    \/ e.val.Message = MsgInvalidIAMRole
            THEN Returns(Nil, <<>>, ErrAwsAuthenticationError)
            ELSE Returns(Nil, <<>>, Errorf(SourceBadRequest(source.Name)))
    [] OTHER ->
         Returns(Nil, <<>>, Errorf(UnknownResponse(FmtD(o.resp.StatusCode))))

DeleteAWSLogSourceRequest(s, collectorID, id) ==
  AddHeader(NewRequest("DELETE", EndpointFor(s, SourcePath(collectorID, id)), NoBody),
            "Authorization", BasicAuth(s))

\* (Mutant: a delete that takes 204 No Content for success too.)
DeleteAWSLogSourceResultAny2xx(o) ==
  IF o.err # NoErr THEN Returns(Nil, <<>>, o.err)
  ELSE
  CASE o.resp.StatusCode \in {StatusOK, 204} ->
         Returns(Nil, <<>>, NoErr)
    [] o.resp.StatusCode = StatusNotFound ->
         Returns(Nil, <<>>, ErrSourceNotFound)
    [] o.resp.StatusCode = StatusUnauthorized ->
         Returns(Nil, <<>>, ErrClientAuthenticationError)
    [] OTHER ->
         Returns(Nil, <<>>, Errorf(UnknownResponse(FmtD(o.resp.StatusCode))))

DeleteAWSLogSourceResult(o) ==
  IF o.err # NoErr THEN Returns(Nil, <<>>, o.err)
  ELSE
  CASE o.resp.StatusCode = StatusOK ->
         Returns(Nil, <<>>, NoErr)
    [] o.resp.StatusCode = StatusNotFound ->
         Returns(Nil, <<>>, ErrSourceNotFound)
    [] o.resp.StatusCode = StatusUnauthorized ->
         Returns(Nil, <<>>, ErrClientAuthenticationError)
    [] OTHER ->
         Returns(Nil, <<>>, Errorf(UnknownResponse(FmtD(o.resp.StatusCode))))


(***************************************************************************)
(* The inputs of the model: the client, the arguments of the calls and     *)
(* what the transport may yield.                                           *)
(***************************************************************************)
NameTest == <<"t","e","s","t">>

NameUpdated == <<"U","p","d","a","t","e","d">>

\* The arguments of NewClient: the token and URL of the tests, a token with
\* credentials as written and a base URL with a path, and two URLs that
\* url.Parse rejects.
TokenTest == <<"a","c","c","e","s","s","T","o","k","e","n">>

TokenRaw == <<"a","c","c","e","s","s","I","d",":","a","c","c","e","s","s","K","e","y">>

URLTest == <<"h","t","t","p",":","/","/","1","2","7",".","0",".","0",".","1",":","8","0","8","0">>

URLWithPath == <<"H","T","T","P","S",":","/","/","a","p","i",".","s","u","m","o","l","o","g","i","c",".","c","o","m","/","a","p","i","/","v","1","/">>

\* A base whose path does not end with a slash.
URLNoSlash == <<"h","t","t","p",":","/","/","1","2","7",".","0",".","0",".","1",":","8","0","8","0","/","a","p","i","/","v","1">>

URLNoScheme == <<":","/","/","1","2","7",".","0",".","0",".","1",":","8","0","8","0">>

URLBadHost == <<"h","t","t","p",":","/","/","s","u","m","o"," ","l","o","g","i","c",".","c","o","m","/","a","p","i","/">>

ClientArgs ==
  { <<TokenTest, URLTest>>, <<TokenRaw, URLWithPath>>, <<TokenTest, URLNoSlash>>,
    <<TokenTest, URLNoScheme>>, <<TokenRaw, URLBadHost>> }

\* NewClient("accessToken", ts.URL) of the tests.
TestClient == NewClientResult(TokenTest, URLTest).client

ArgIDs == (0..MaxId) \cup {DefaultID}

ETags == {<<>>, <<"e","t","a","g">>}

NewCollector(id, name) ==
  [Zero("Collector") EXCEPT !.ID = id, !.Name = name]

NewSource(ty, id, name, collectorID) ==
  [Zero(ty) EXCEPT !.ID = id, !.Name = name, !.CollectorID = collectorID]

RichCollector ==
  [NewCollector(1, NameUpdated) EXCEPT
     !.Description = <<"h","o","s","t","e","d">>,
     !.Links = MkSlice(<<[Rel |-> <<"s","o","u","r","c","e","s">>, Href |-> <<"/","v","1","/","c","o","l","l","e","c","t","o","r","s","/","1","/","s","o","u","r","c","e","s">>]>>),
     !.LastSeenAlive = 5,
     !.Alive = TRUE]

Collectors ==
  { NewCollector(0, NameTest),
    NewCollector(DefaultID, NameTest),
    NewCollector(DefaultID, NameUpdated),
    RichCollector }

BucketResource ==
  [ServiceType |-> <<"A","w","s","S","3","B","u","c","k","e","t">>,
   Path |-> [Type |-> <<"S","3","B","u","c","k","e","t","P","a","t","h","E","x","p","r","e","s","s","i","o","n">>, BucketName |-> <<"b">>,
             PathExpression |-> <<"*">>],
   Authentication |-> [Type |-> <<"A","W","S","R","o","l","e","B","a","s","e","d","A","u","t","h","e","n","t","i","c","a","t","i","o","n">>,
                       RoleARN |-> <<"a","r","n",":","a","w","s",":","i","a","m",":",":","1",":","r","o","l","e","/","r">>]]

RichHTTPSource ==
  [NewSource("HTTPSource", 1, NameUpdated, DefaultID) EXCEPT
     !.Category = <<"p","r","o","d">>, !.MessagePerRequest = TRUE, !.Url = <<"h","t","t","p","s",":","/","/","e","/","x">>]

RichAWSCloudTrailSource ==
  [NewSource("AWSCloudTrailSource", 1, NameUpdated, DefaultID) EXCEPT
     !.ContentType = <<"A","w","s","C","l","o","u","d","T","r","a","i","l","B","u","c","k","e","t">>, !.ScanInterval = 300000,
     !.Paused = TRUE, !.CutoffRelativeTime = <<"-","1","h">>,
     !.ThirdPartyRef = [Resources |-> MkSlice(<<BucketResource>>)]]

RichAWSLogSource ==
  [NewSource("AWSLogSource", 1, NameUpdated, DefaultID) EXCEPT
     !.ContentType = <<"A","w","s","S","3","B","u","c","k","e","t">>, !.ScanInterval = 300000,
     !.UseAutolineMatching = TRUE,
     !.ThirdPartyRef = [Resources |-> MkSlice(<<BucketResource>>)]]

RichSource(ty) ==
  CASE ty = "HTTPSource" -> RichHTTPSource
    [] ty = "AWSCloudTrailSource" -> RichAWSCloudTrailSource
    [] ty = "AWSLogSource" -> RichAWSLogSource

Sources(ty) ==
  { NewSource(ty, 0, NameTest, 0),
    NewSource(ty, DefaultID, NameTest, DefaultID),
    NewSource(ty, DefaultID, NameUpdated, DefaultID),
    RichSource(ty) }

\* The messages of the error bodies.
SampleCannotAuthenticate == <<"C","a","n","n","o","t"," ","a","u","t","h","e","n","t","i","c","a","t","e"," ","w","i","t","h"," ","A","W","S",".">>

SampleInvalidIAMRole == <<"I","n","v","a","l","i","d"," ","I","A","M"," ","r","o","l","e",":"," ","'","e","r","r","o","r","C","o","d","e","=","A","c","c","e","s","s","D","e","n","i","e","d","'",".">>

SampleS3NotReadable == <<"T","h","e"," ","S","3"," ","b","u","c","k","e","t"," ","'","b","u","c","k","e","t","N","a","m","e","=","m","y","-","b","u","c","k","e","t","'"," ","i","s"," ","n","o","t"," ","r","e","a","d","a","b","l","e",".">>

SampleS3Embedded == <<"E","r","r","o","r",":"," ","T","h","e"," ","S","3"," ","b","u","c","k","e","t"," ","'","b","u","c","k","e","t","N","a","m","e","=","b","'"," ","i","s"," ","n","o","t"," ","r","e","a","d","a","b","l","e","!"," ","R","e","t","r","y",".">>

SampleDuplicate == <<"A"," ","s","o","u","r","c","e"," ","w","i","t","h"," ","t","h","e"," ","s","a","m","e"," ","n","a","m","e"," ","a","l","r","e","a","d","y"," ","e","x","i","s","t","s",".">>

Messages ==
  {SampleCannotAuthenticate, SampleInvalidIAMRole, SampleS3NotReadable,
   SampleS3Embedded, SampleDuplicate}

\* {"status":400,"id":"E1","code":"bad","message":msg}
ErrorBody(msg) ==
  JObj("status" :> JNum(StatusBadRequest) @@ "id" :> JStr(<<"E","1">>)
         @@ "code" :> JStr(<<"b","a","d">>) @@ "message" :> JStr(msg))

\* The same with a status of the wrong JSON type.
ErrorBodyBadStatus(msg) ==
  JObj("status" :> JStr(<<"4","0","0">>) @@ "message" :> JStr(msg))

\* {"source":{"id":1234567890,"name":"test","CollectorId":1234567890}}
EnvSourceMinimal ==
  JObj("source" :> JObj("id" :> JNum(DefaultID) @@ "name" :> JStr(NameTest)
                          @@ "CollectorId" :> JNum(DefaultID)))

\* Keys spelled in another case, for a collector and for a source.
EnvFolded ==
  JObj("Source" :> JObj("ID" :> JNum(1) @@ "Name" :> JStr(NameTest))
         @@ "Collector" :> JObj("ID" :> JNum(1) @@ "Name" :> JStr(NameTest)))

\* An id of the wrong JSON type.
EnvBadId ==
  JObj("source" :> JObj("id" :> JStr(<<"x">>) @@ "name" :> JStr(NameTest))
         @@ "collector" :> JObj("id" :> JStr(<<"x">>) @@ "name" :> JStr(NameTest)))

\* A resource that is not wrapped in an envelope: {"id":1234567890,"name":"test"}
BareResource == JObj("id" :> JNum(DefaultID) @@ "name" :> JStr(NameTest))

EnvelopeBodies ==
  { Marshal("CollectorRequest", [Collector |-> NewCollector(DefaultID, NameTest)]),
    Marshal("CollectorRequest", [Collector |-> RichCollector]),
    EnvSourceMinimal,
    Marshal("HTTPSourceRequest", [Source |-> RichHTTPSource]),
    Marshal("AWSCloudTrailSourceRequest", [Source |-> RichAWSCloudTrailSource]),
    Marshal("AWSLogSourceRequest", [Source |-> RichAWSLogSource]) }

Bodies ==
  {BodyEmpty, BodySyntax, JNull, JObj(NoKeys), BareResource, EnvFolded, EnvBadId}
    \cup EnvelopeBodies
    \cup {ErrorBody(m) : m \in Messages}
    \cup {ErrorBodyBadStatus(SampleCannotAuthenticate)}

Statuses ==
  {StatusOK, StatusCreated, 204, StatusBadRequest, StatusUnauthorized,
   StatusNotFound, 500}

ResponseHeaders == {NoHeader, "Etag" :> <<<<"v","1">>>>}

NoResponse == [StatusCode |-> 0, Header |-> NoHeader, Body |-> BodyEmpty]

NoOutcome == [kind |-> "none", err |-> NoErr, resp |-> NoResponse]

\* client.Do returns a response, or an error and no response.
Outcomes ==
  {[kind |-> "error", err |-> TransportError, resp |-> NoResponse]}
    \cup {[kind |-> "response", err |-> NoErr,
           resp |-> [StatusCode |-> s, Header |-> h, Body |-> b]] :
            s \in Statuses, h \in ResponseHeaders, b \in Bodies}

NoCall ==
  [fn |-> "none", collectorID |-> 0, id |-> 0, resource |-> Nil, etag |-> <<>>]

NoRequest == NewRequest("", <<>>, NoBody)

NoResult == Returns(Nil, <<>>, NoErr)

(***************************************************************************)
(* The state machine.  A call builds its request and hands it to the       *)
(* transport (pc = "waiting"); the function returns when the transport     *)
(* yields an outcome (pc = "done"); then the client is idle again.         *)
(***************************************************************************)
\* No remote resource is modelled, nothing is kept, and there is no second
\* caller.
NoServer == [kind |-> "none"]

NoHeld == [isnil |-> TRUE]

NoCaller == [pc |-> "none"]

NoConstruction == [authToken |-> <<>>, defaultEndpointURL |-> <<>>, err |-> NoErr]

\* Before NewClient there is no client.
Init ==
  /\ construction = NoConstruction
  /\ client = Nil
  /\ pc = "start"
  /\ call = NoCall
  /\ request = NoRequest
  /\ sent = <<>>
  /\ outcome = NoOutcome
  /\ result = NoResult
  /\ server = NoServer
  /\ held = NoHeld
  /\ other = NoCaller

\* NewClient(authToken, defaultEndpointURL): with a client the caller goes
\* on to call its functions; without one there is nothing to call.
NewClient ==
  /\ pc = "start"
  /\ \E args \in ClientArgs :
       LET r == NewClientResult(args[1], args[2])
       IN /\ construction' = [authToken |-> args[1], defaultEndpointURL |-> args[2],
                              err |-> r.err]
          /\ client' = r.client
          /\ pc' = IF r.err = NoErr THEN "idle" ELSE "failed"
  /\ UNCHANGED <<call, request, sent, outcome, result, env>>

\* (Mutant: resolving the path rebases the client's endpoint.)
IssueRebasing(fn, collectorID, id, resource, etag, req) ==
  /\ pc' = "waiting"
  /\ call' = [fn |-> fn, collectorID |-> collectorID, id |-> id,
              resource |-> resource, etag |-> etag]
  /\ request' = req
  /\ sent' = <<req>>
  /\ outcome' = NoOutcome
  /\ result' = NoResult
  /\ client' = [client EXCEPT !.EndpointURL.Path = @ \o <<"c">>]
  /\ UNCHANGED <<construction, env>>

Issue(fn, collectorID, id, resource, etag, req) ==
  /\ pc' = "waiting"
  /\ call' = [fn |-> fn, collectorID |-> collectorID, id |-> id,
              resource |-> resource, etag |-> etag]
  /\ request' = req
  /\ sent' = <<req>>
  /\ outcome' = NoOutcome
  /\ result' = NoResult
  /\ UNCHANGED <<construction, client, env>>

\* (Mutant: a request that did not succeed is sent a second time.)
CompleteRetrying(o, res) ==
  /\ pc' = "done"
  /\ outcome' = o
  /\ result' = res
  /\ sent' = IF res.err = NoErr THEN sent ELSE sent \o <<request>>
  /\ UNCHANGED <<construction, client, call, request, env>>

\* (Mutant: a call that gives up by itself: it returns an error though the transport has yielded nothing.)
CompleteTimingOut(o, res) ==
  /\ pc' = "done"
  /\ outcome' = NoOutcome
  /\ result' = Returns(Nil, <<>>, Errorf(<<"r","e","q","u","e","s","t"," ","t","i","m","e","d"," ","o","u","t">>))
  /\ UNCHANGED <<construction, client, call, request, sent, env>>

Complete(o, res) ==
  /\ pc' = "done"
  /\ outcome' = o
  /\ result' = res
  /\ UNCHANGED <<construction, client, call, request, sent, env>>

\* The caller has taken the results; the client is ready for the next call.
Done ==
  /\ pc = "done"
  /\ pc' = "idle"
  /\ call' = NoCall
  /\ request' = NoRequest
  /\ sent' = <<>>
  /\ outcome' = NoOutcome
  /\ result' = NoResult
  /\ UNCHANGED <<construction, client, env>>

GetHostedCollector ==
  /\ pc = "idle"
  /\ \E id \in ArgIDs :
       Issue("GetHostedCollector", 0, id, Nil, <<>>,
             GetHostedCollectorRequest(client, id))

GetHostedCollectorReturn ==
  /\ pc = "waiting"
  /\ call.fn = "GetHostedCollector"
  /\ \E o \in Outcomes :
       Complete(o, GetHostedCollectorResult(o))

CreateHostedCollector ==
  /\ pc = "idle"
  /\ \E c \in Collectors :
       Issue("CreateHostedCollector", 0, 0, c, <<>>,
             CreateHostedCollectorRequest(client, c))

CreateHostedCollectorReturn ==
  /\ pc = "waiting"
  /\ call.fn = "CreateHostedCollector"
  /\ \E o \in Outcomes :
       Complete(o, CreateHostedCollectorResult(call.resource, o))

UpdateHostedCollector ==
  /\ pc = "idle"
  /\ \E c \in Collectors, etag \in ETags :
       Issue("UpdateHostedCollector", 0, 0, c, etag,
             UpdateHostedCollectorRequest(client, c, etag))

UpdateHostedCollectorReturn ==
  /\ pc = "waiting"
  /\ call.fn = "UpdateHostedCollector"
  /\ \E o \in Outcomes :
       Complete(o, UpdateHostedCollectorResult(call.resource, o))

DeleteHostedCollector ==
  /\ pc = "idle"
  /\ \E id \in ArgIDs :
       Issue("DeleteHostedCollector", 0, id, Nil, <<>>,
             DeleteHostedCollectorRequest(client, id))

DeleteHostedCollectorReturn ==
  /\ pc = "waiting"
  /\ call.fn = "DeleteHostedCollector"
  /\ \E o \in Outcomes :
       Complete(o, DeleteHostedCollectorResult(o))

GetHTTPSource ==
  /\ pc = "idle"
  /\ \E collectorID \in ArgIDs, id \in ArgIDs :
       Issue("GetHTTPSource", collectorID, id, Nil, <<>>,
             GetHTTPSourceRequest(client, collectorID, id))

GetHTTPSourceReturn ==
  /\ pc = "waiting"
  /\ call.fn = "GetHTTPSource"
  /\ \E o \in Outcomes :
       Complete(o, GetHTTPSourceResult(o))

CreateHTTPSource ==
  /\ pc = "idle"
  /\ \E collectorID \in ArgIDs, source \in Sources("HTTPSource") :
       Issue("CreateHTTPSource", collectorID, 0, source, <<>>,
             CreateHTTPSourceRequest(client, collectorID, source))

CreateHTTPSourceReturn ==
  /\ pc = "waiting"
  /\ call.fn = "CreateHTTPSource"
  /\ \E o \in Outcomes :
       Complete(o, CreateHTTPSourceResult(call.resource, o))

UpdateHTTPSource ==
  /\ pc = "idle"
  /\ \E collectorID \in ArgIDs, source \in Sources("HTTPSource"), etag \in ETags :
       Issue("UpdateHTTPSource", collectorID, 0, source, etag,
             UpdateHTTPSourceRequest(client, collectorID, source, etag))

UpdateHTTPSourceReturn ==
  /\ pc = "waiting"
  /\ call.fn = "UpdateHTTPSource"
  /\ \E o \in Outcomes :
       Complete(o, UpdateHTTPSourceResult(call.resource, o))

DeleteHTTPSource ==
  /\ pc = "idle"
  /\ \E collectorID \in ArgIDs, id \in ArgIDs :
       Issue("DeleteHTTPSource", collectorID, id, Nil, <<>>,
             DeleteHTTPSourceRequest(client, collectorID, id))

DeleteHTTPSourceReturn ==
  /\ pc = "waiting"
  /\ call.fn = "DeleteHTTPSource"
  /\ \E o \in Outcomes :
       Complete(o, DeleteHTTPSourceResult(o))

GetAWSCloudTrailSource ==
  /\ pc = "idle"
  /\ \E collectorID \in ArgIDs, id \in ArgIDs :
       Issue("GetAWSCloudTrailSource", collectorID, id, Nil, <<>>,
             GetAWSCloudTrailSourceRequest(client, collectorID, id))

GetAWSCloudTrailSourceReturn ==
  /\ pc = "waiting"
  /\ call.fn = "GetAWSCloudTrailSource"
  /\ \E o \in Outcomes :
       Complete(o, GetAWSCloudTrailSourceResult(o))

CreateAWSCloudTrailSource ==
  /\ pc = "idle"
  /\ \E collectorID \in ArgIDs, source \in Sources("AWSCloudTrailSource") :
       Issue("CreateAWSCloudTrailSource", collectorID, 0, source, <<>>,
             CreateAWSCloudTrailSourceRequest(client, collectorID, source))

CreateAWSCloudTrailSourceReturn ==
  /\ pc = "waiting"
  /\ call.fn = "CreateAWSCloudTrailSource"
  /\ \E o \in Outcomes :
       Complete(o, CreateAWSCloudTrailSourceResult(call.resource, o))

UpdateAWSCloudTrailSource ==
  /\ pc = "idle"
  /\ \E collectorID \in ArgIDs, source \in Sources("AWSCloudTrailSource"), etag \in ETags :
       Issue("UpdateAWSCloudTrailSource", collectorID, 0, source, etag,
             UpdateAWSCloudTrailSourceRequest(client, collectorID, source, etag))

UpdateAWSCloudTrailSourceReturn ==
  /\ pc = "waiting"
  /\ call.fn = "UpdateAWSCloudTrailSource"
  /\ \E o \in Outcomes :
       Complete(o, UpdateAWSCloudTrailSourceResult(call.resource, o))

DeleteAWSCloudTrailSource ==
  /\ pc = "idle"
  /\ \E collectorID \in ArgIDs, id \in ArgIDs :
       Issue("DeleteAWSCloudTrailSource", collectorID, id, Nil, <<>>,
             DeleteAWSCloudTrailSourceRequest(client, collectorID, id))

DeleteAWSCloudTrailSourceReturn ==
  /\ pc = "waiting"
  /\ call.fn = "DeleteAWSCloudTrailSource"
  /\ \E o \in Outcomes :
       Complete(o, DeleteAWSCloudTrailSourceResult(o))

GetAWSLogSource ==
  /\ pc = "idle"
  /\ \E collectorID \in ArgIDs, id \in ArgIDs :
       Issue("GetAWSLogSource", collectorID, id, Nil, <<>>,
             GetAWSLogSourceRequest(client, collectorID, id))

GetAWSLogSourceReturn ==
  /\ pc = "waiting"
  /\ call.fn = "GetAWSLogSource"
  /\ \E o \in Outcomes :
       Complete(o, GetAWSLogSourceResult(o))

CreateAWSLogSource ==
  /\ pc = "idle"
  /\ \E collectorID \in ArgIDs, source \in Sources("AWSLogSource") :
       Issue("CreateAWSLogSource", collectorID, 0, source, <<>>,
             CreateAWSLogSourceRequest(client, collectorID, source))

CreateAWSLogSourceReturn ==
  /\ pc = "waiting"
  /\ call.fn = "CreateAWSLogSource"
  /\ \E o \in Outcomes :
       Complete(o, CreateAWSLogSourceResult(call.resource, o))

UpdateAWSLogSource ==
  /\ pc = "idle"
  /\ \E collectorID \in ArgIDs, source \in Sources("AWSLogSource"), etag \in ETags :
       Issue("UpdateAWSLogSource", collectorID, 0, source, etag,
             UpdateAWSLogSourceRequest(client, collectorID, source, etag))

UpdateAWSLogSourceReturn ==
  /\ pc = "waiting"
  /\ call.fn = "UpdateAWSLogSource"
  /\ \E o \in Outcomes :
       Complete(o, UpdateAWSLogSourceResult(call.resource, o))

DeleteAWSLogSource ==
  /\ pc = "idle"
  /\ \E collectorID \in ArgIDs, id \in ArgIDs :
       Issue("DeleteAWSLogSource", collectorID, id, Nil, <<>>,
             DeleteAWSLogSourceRequest(client, collectorID, id))

DeleteAWSLogSourceReturn ==
  /\ pc = "waiting"
  /\ call.fn = "DeleteAWSLogSource"
  /\ \E o \in Outcomes :
       Complete(o, DeleteAWSLogSourceResult(o))

Next ==
  \/ NewClient
  \/ GetHostedCollector
  \/ GetHostedCollectorReturn
  \/ CreateHostedCollector
  \/ CreateHostedCollectorReturn
  \/ UpdateHostedCollector
  \/ UpdateHostedCollectorReturn
  \/ DeleteHostedCollector
  \/ DeleteHostedCollectorReturn
  \/ GetHTTPSource
  \/ GetHTTPSourceReturn
  \/ CreateHTTPSource
  \/ CreateHTTPSourceReturn
  \/ UpdateHTTPSource
  \/ UpdateHTTPSourceReturn
  \/ DeleteHTTPSource
  \/ DeleteHTTPSourceReturn
  \/ GetAWSCloudTrailSource
  \/ GetAWSCloudTrailSourceReturn
  \/ CreateAWSCloudTrailSource
  \/ CreateAWSCloudTrailSourceReturn
  \/ UpdateAWSCloudTrailSource
  \/ UpdateAWSCloudTrailSourceReturn
  \/ DeleteAWSCloudTrailSource
  \/ DeleteAWSCloudTrailSourceReturn
  \/ GetAWSLogSource
  \/ GetAWSLogSourceReturn
  \/ CreateAWSLogSource
  \/ CreateAWSLogSourceReturn
  \/ UpdateAWSLogSource
  \/ UpdateAWSLogSourceReturn
  \/ DeleteAWSLogSource
  \/ DeleteAWSLogSourceReturn
  \/ Done

Spec == Init /\ [][Next]_vars

(***************************************************************************)
(* Vocabulary of the properties.                                           *)
(***************************************************************************)
CollectorFns ==
  {"GetHostedCollector", "CreateHostedCollector", "UpdateHostedCollector",
   "DeleteHostedCollector"}

HTTPSourceFns ==
  {"GetHTTPSource", "CreateHTTPSource", "UpdateHTTPSource", "DeleteHTTPSource"}

AWSCloudTrailSourceFns ==
  {"GetAWSCloudTrailSource", "CreateAWSCloudTrailSource",
   "UpdateAWSCloudTrailSource", "DeleteAWSCloudTrailSource"}

AWSLogSourceFns ==
  {"GetAWSLogSource", "CreateAWSLogSource", "UpdateAWSLogSource",
   "DeleteAWSLogSource"}

GetFns ==
  {"GetHostedCollector", "GetHTTPSource", "GetAWSCloudTrailSource", "GetAWSLogSource"}

CreateFns ==
  {"CreateHostedCollector", "CreateHTTPSource", "CreateAWSCloudTrailSource",
   "CreateAWSLogSource"}

UpdateFns ==
  {"UpdateHostedCollector", "UpdateHTTPSource", "UpdateAWSCloudTrailSource",
   "UpdateAWSLogSource"}

DeleteFns ==
  {"DeleteHostedCollector", "DeleteHTTPSource", "DeleteAWSCloudTrailSource",
   "DeleteAWSLogSource"}

\* The call has returned, and the transport had delivered a response.
Responded == pc = "done" /\ outcome.kind = "response"

StatusOf == outcome.resp.StatusCode

\* The resource type of a function, its envelope type, and the envelope's
\* key on the wire and field in Go.
ResourceType(fn) ==
  CASE fn \in CollectorFns -> "Collector"
    [] fn \in HTTPSourceFns -> "HTTPSource"
    [] fn \in AWSCloudTrailSourceFns -> "AWSCloudTrailSource"
    [] fn \in AWSLogSourceFns -> "AWSLogSource"

EnvelopeType(fn) ==
  CASE fn \in CollectorFns -> "CollectorRequest"
    [] fn \in HTTPSourceFns -> "HTTPSourceRequest"
    [] fn \in AWSCloudTrailSourceFns -> "AWSCloudTrailSourceRequest"
    [] fn \in AWSLogSourceFns -> "AWSLogSourceRequest"

EnvelopeKey(fn) == IF fn \in CollectorFns THEN "collector" ELSE "source"

EnvelopeField(fn) == IF fn \in CollectorFns THEN "Collector" ELSE "Source"

\* The kind-specific not-found error of a function.
NotFoundOf(fn) ==
  IF fn \in CollectorFns THEN "ErrCollectorNotFound" ELSE "ErrSourceNotFound"

\* err is an "unexpected status" error that carries the status code.
IsUnexpectedStatus(err, code) ==
  /\ err.id = "fmt.Errorf"
  /\ HasAt(err.msg, 1, <<"U","n","k","n","o","w","n"," ","R","e","s","p","o","n","s","e"," ","w","i","t","h"," ","S","u","m","o"," ","L","o","g","i","c">>)
  /\ Contains(err.msg, Itoa(code))

\* err is a generic bad-request error.
IsBadRequest(err) ==
  /\ err.id = "fmt.Errorf"
  /\ HasAt(err.msg, 1, <<"B","a","d"," ","R","e","q","u","e","s","t",".">>)

\* The body is a well-formed envelope of the function's kind: one of the
\* envelope documents, holding the kind's key.
ValidEnvelope(fn, body) ==
  /\ body \in EnvelopeBodies
  /\ EnvelopeKey(fn) \in DOMAIN body.v

\* The resource on the wire, under the envelope key.
Wire(fn, body) == body.v[EnvelopeKey(fn)].v

\* Every field of the Go resource res of type ty is what the JSON object
\* wire holds under the field's key, and the zero value when the object
\* does not hold the key.
SameAsWire(ty, res, wire) ==
  \A n \in FieldNames(ty) :
    LET f == StructFields(ty)[n]
    IN IF f.key \in DOMAIN wire
       THEN Marshal(f.type, res[n]) = wire[f.key]
       ELSE res[n] = Zero(f.type)

\* The body is a structured error body {status, id, code, message}.
StructuredError(body) == body \in {ErrorBody(m) : m \in Messages}

(***************************************************************************)
(* C1.  Get of each of the four kinds, on a delivered response: the        *)
(* kind-specific not-found error is returned if and only if the status is  *)
(* 404, ErrClientAuthenticationError if and only if it is 401, and every   *)
(* other status but 200 yields an "unexpected status" error that carries   *)
(* the status code.                                                        *)
(***************************************************************************)
C1_GetStatusErrors ==
  (Responded /\ call.fn \in GetFns) =>
    /\ (result.err.id = NotFoundOf(call.fn)) <=> (StatusOf = 404)
    /\ result.err.id \in {"ErrCollectorNotFound", "ErrSourceNotFound"}
         => result.err.id = NotFoundOf(call.fn)
    /\ (result.err.id = "ErrClientAuthenticationError") <=> (StatusOf = 401)
    /\ StatusOf \notin {200, 401, 404} =>
         /\ IsUnexpectedStatus(result.err, StatusOf)
         /\ result.res = Nil
         /\ ~result.panicked

C1_Witness ==
  /\ Responded
  /\ call.fn = "GetAWSLogSource"
  /\ StatusOf = 404
  /\ result.err = ErrSourceNotFound

(***************************************************************************)
(* C2.  Get of each of the four kinds, on a 200 response with a valid      *)
(* envelope: the error is nil, the resource returned has the id and every  *)
(* other field of the envelope, and the ETag returned is the value of the  *)
(* response's ETag header.                                                 *)
(***************************************************************************)
C2_GetReturnsEnvelope ==
  (/\ Responded
   /\ call.fn \in GetFns
   /\ StatusOf = 200
   /\ ValidEnvelope(call.fn, outcome.resp.Body)) =>
    /\ ~result.panicked
    /\ result.err = NoErr
    /\ result.res # Nil
    /\ result.res.ID = Wire(call.fn, outcome.resp.Body)["id"].v
    /\ SameAsWire(ResourceType(call.fn), result.res, Wire(call.fn, outcome.resp.Body))
    /\ result.etag = IF "Etag" \in DOMAIN outcome.resp.Header
                     THEN outcome.resp.Header["Etag"][1]
                     ELSE <<>>

C2_Witness ==
  /\ Responded
  /\ call.fn = "GetAWSLogSource"
  /\ StatusOf = 200
  /\ outcome.resp.Body = Marshal("AWSLogSourceRequest", [Source |-> RichAWSLogSource])
  /\ result.res = RichAWSLogSource
  /\ result.etag = <<"v","1">>

(***************************************************************************)
(* C3.  Create of each of the four kinds sends a body whose decoded        *)
(* envelope carries the name of the resource passed in, and on a 201       *)
(* response returns the resource decoded from the response envelope: the   *)
(* id returned is the one of the response, whatever id the caller          *)
(* supplied, and never the caller's.                                       *)
(***************************************************************************)
C3_CreateSendsNameReturnsServerId ==
  /\ (pc \in {"waiting", "done"} /\ call.fn \in CreateFns) =>
       /\ request.body.t = "obj"
       /\ EnvelopeKey(call.fn) \in DOMAIN request.body.v
       /\ Decode(EnvelopeType(call.fn), request.body,
                 Zero(EnvelopeType(call.fn)))[EnvelopeField(call.fn)].Name
            = call.resource.Name
  /\ (/\ Responded
      /\ call.fn \in CreateFns
      /\ StatusOf = 201
      /\ ValidEnvelope(call.fn, outcome.resp.Body)) =>
       /\ ~result.panicked
       /\ result.err = NoErr
       /\ result.res # Nil
       /\ result.res.ID = Wire(call.fn, outcome.resp.Body)["id"].v
       /\ SameAsWire(ResourceType(call.fn), result.res,
                     Wire(call.fn, outcome.resp.Body))
       /\ Wire(call.fn, outcome.resp.Body)["id"].v # call.resource.ID
            => result.res.ID # call.resource.ID

C3_Witness ==
  /\ Responded
  /\ call.fn = "CreateHostedCollector"
  /\ StatusOf = 201
  /\ call.resource.ID = DefaultID
  /\ ValidEnvelope(call.fn, outcome.resp.Body)
  /\ result.res.ID = 1

(***************************************************************************)
(* C4.  Update of each of the four kinds: the PUT carries an If-Match      *)
(* header whose value is the etag argument, the empty string included; on  *)
(* a 200 response the resource decoded from the response body is returned  *)
(* (a changed name is reflected); on a 400 response a non-nil error is     *)
(* returned.                                                               *)
(***************************************************************************)
C4_UpdateContract ==
  /\ (pc \in {"waiting", "done"} /\ call.fn \in UpdateFns) =>
       /\ request.method = "PUT"
       /\ "If-Match" \in DOMAIN request.header
       /\ request.header["If-Match"] = <<call.etag>>
  /\ (/\ Responded
      /\ call.fn \in UpdateFns
      /\ StatusOf = 200
      /\ ValidEnvelope(call.fn, outcome.resp.Body)) =>
       /\ ~result.panicked
       /\ result.err = NoErr
       /\ result.res # Nil
       /\ result.res.Name = Wire(call.fn, outcome.resp.Body)["name"].v
       /\ SameAsWire(ResourceType(call.fn), result.res,
                     Wire(call.fn, outcome.resp.Body))
  /\ (Responded /\ call.fn \in UpdateFns /\ StatusOf = 400) =>
       /\ ~result.panicked
       /\ result.err # NoErr

(***************************************************************************)
(* C5.  Delete of each of the four kinds returns a nil error exactly when  *)
(* the response status is 200; on 404 it returns the kind-specific         *)
(* not-found error, on 401 ErrClientAuthenticationError, and on any other  *)
(* status an "unexpected status" error.                                    *)
(***************************************************************************)
C5_DeleteStatusErrors ==
  (pc = "done" /\ call.fn \in DeleteFns) =>
    /\ ~result.panicked
    /\ (result.err = NoErr) <=> (outcome.kind = "response" /\ StatusOf = 200)
    /\ outcome.kind = "response" =>
         /\ StatusOf = 404 => result.err.id = NotFoundOf(call.fn)
         /\ StatusOf = 401 => result.err.id = "ErrClientAuthenticationError"
         /\ StatusOf \notin {200, 401, 404} =>
              IsUnexpectedStatus(result.err, StatusOf)

C5_Witness ==
  /\ Responded
  /\ call.fn = "DeleteAWSCloudTrailSource"
  /\ StatusOf = 404
  /\ result.err = ErrSourceNotFound

(***************************************************************************)
(* C6.  Create of each of the four kinds, on a 400 response without a      *)
(* structured error body (an empty or undecodable body), returns a non-nil *)
(* error whose message holds the name of the resource the caller tried to  *)
(* create.                                                                 *)
(***************************************************************************)
C6_CreateBadRequestNamesResource ==
  (/\ Responded
   /\ call.fn \in CreateFns
   /\ StatusOf = 400
   /\ outcome.resp.Body.t \in {"empty", "syntax"}) =>
    /\ ~result.panicked
    /\ result.err # NoErr
    /\ Contains(result.err.msg, call.resource.Name)

(***************************************************************************)
(* C7.  Create of an AWSCloudTrailSource or an AWSLogSource, on a 400      *)
(* response whose structured error body has the message "Cannot            *)
(* authenticate with AWS." exactly, returns ErrAwsAuthenticationError and  *)
(* no resource.                                                            *)
(***************************************************************************)
C7_CreateCannotAuthenticate ==
  (/\ Responded
   /\ call.fn \in {"CreateAWSCloudTrailSource", "CreateAWSLogSource"}
   /\ StatusOf = 400
   /\ StructuredError(outcome.resp.Body)
   /\ outcome.resp.Body.v["message"].v = <<"C","a","n","n","o","t"," ","a","u","t","h","e","n","t","i","c","a","t","e"," ","w","i","t","h"," ","A","W","S",".">>) =>
    /\ ~result.panicked
    /\ result.err = ErrAwsAuthenticationError
    /\ result.res = Nil

C7_Witness ==
  /\ Responded
  /\ call.fn = "CreateAWSCloudTrailSource"
  /\ StatusOf = 400
  /\ outcome.resp.Body = ErrorBody(<<"C","a","n","n","o","t"," ","a","u","t","h","e","n","t","i","c","a","t","e"," ","w","i","t","h"," ","A","W","S",".">>)
  /\ result.err.id = "ErrAwsAuthenticationError"

(***************************************************************************)
(* C8.  Create of an AWSCloudTrailSource or an AWSLogSource, on a 400      *)
(* response with a structured error body: a message matching one of the    *)
(* three known AWS-authentication-failure patterns ("Cannot authenticate   *)
(* with AWS.", the "Invalid IAM role ... AccessDenied" message, "The S3    *)
(* bucket '...' is not readable.") yields ErrAwsAuthenticationError, and   *)
(* any other message a generic bad-request error carrying the message.     *)
(***************************************************************************)
KnownAWSFailure(m) ==
  \/ m = <<"C","a","n","n","o","t"," ","a","u","t","h","e","n","t","i","c","a","t","e"," ","w","i","t","h"," ","A","W","S",".">>
  \/ m = <<"I","n","v","a","l","i","d"," ","I","A","M"," ","r","o","l","e",":"," ","'","e","r","r","o","r","C","o","d","e","=","A","c","c","e","s","s","D","e","n","i","e","d","'",".">>
  \/ MatchS3NotReadable(m)

C8_CreateAWSFailurePatterns ==
  (/\ Responded
   /\ call.fn \in {"CreateAWSCloudTrailSource", "CreateAWSLogSource"}
   /\ StatusOf = 400
   /\ StructuredError(outcome.resp.Body)) =>
    LET m == outcome.resp.Body.v["message"].v
    IN /\ ~result.panicked
       /\ IF KnownAWSFailure(m)
          THEN result.err.id = "ErrAwsAuthenticationError"
          ELSE IsBadRequest(result.err) /\ Contains(result.err.msg, m)

(***************************************************************************)
(* C9.  Update of an AWSCloudTrailSource or an AWSLogSource handles 401    *)
(* and 400 responses as Create of the same kind does: for every structured *)
(* 400 error body Update returns ErrAwsAuthenticationError exactly when    *)
(* Create returns it for that body, and a generic bad-request error        *)
(* otherwise.                                                              *)
(***************************************************************************)
CreateResultOfKind(fn, source, o) ==
  IF fn \in AWSCloudTrailSourceFns
  THEN CreateAWSCloudTrailSourceResult(source, o)
  ELSE CreateAWSLogSourceResult(source, o)

C9_UpdateClassifiesAsCreate ==
  (/\ Responded
   /\ call.fn \in {"UpdateAWSCloudTrailSource", "UpdateAWSLogSource"}
   /\ \/ StatusOf = 401
      \/ StatusOf = 400 /\ StructuredError(outcome.resp.Body)) =>
    LET c == CreateResultOfKind(call.fn, call.resource, outcome)
    IN /\ ~result.panicked
       /\ (result.err.id = "ErrAwsAuthenticationError")
            <=> (c.err.id = "ErrAwsAuthenticationError")
       /\ (result.err.id = "ErrClientAuthenticationError")
            <=> (c.err.id = "ErrClientAuthenticationError")
       /\ (StatusOf = 400 /\ result.err.id # "ErrAwsAuthenticationError")
            => IsBadRequest(result.err)

(***************************************************************************)
(* C10.  No function of Collector or HTTPSource ever returns               *)
(* ErrAwsAuthenticationError, whatever the body of a 400 response; and     *)
(* UpdateHostedCollector and UpdateHTTPSource on a 400 return a generic    *)
(* bad-request error that names the resource passed in.                    *)
(***************************************************************************)
C10_PlainKindsNeverAwsError ==
  /\ (pc = "done" /\ call.fn \in CollectorFns \cup HTTPSourceFns) =>
       result.err.id # "ErrAwsAuthenticationError"
  /\ (/\ Responded
      /\ call.fn \in {"UpdateHostedCollector", "UpdateHTTPSource"}
      /\ StatusOf = 400) =>
       /\ ~result.panicked
       /\ result.res = Nil
       /\ IsBadRequest(result.err)
       /\ Contains(result.err.msg, call.resource.Name)

C10_Witness ==
  /\ Responded
  /\ call.fn = "UpdateHTTPSource"
  /\ StatusOf = 400
  /\ outcome.resp.Body = ErrorBody(<<"C","a","n","n","o","t"," ","a","u","t","h","e","n","t","i","c","a","t","e"," ","w","i","t","h"," ","A","W","S",".">>)
  /\ IsBadRequest(result.err)
  /\ Contains(result.err.msg, NameUpdated)

(***************************************************************************)
(* C11.  Each function issues its request with the method and path of its  *)
(* endpoint: Get is a GET, Create a POST, Update a PUT, Delete a DELETE;   *)
(* the path, under the base URL, is collectors for the Create of a         *)
(* collector, collectors/{id} for its Get, Update and Delete,              *)
(* collectors/{collectorID}/sources for the Create of a source and         *)
(* collectors/{collectorID}/sources/{id} for its Get, Update and Delete,   *)
(* the identifiers written in decimal from the arguments.                  *)
(***************************************************************************)
InCall == pc \in {"waiting", "done"}

\* The base of the request URLs for the URL NewClient was given.
ExpectedBase ==
  CASE construction.defaultEndpointURL = URLTest -> <<"h","t","t","p",":","/","/","1","2","7",".","0",".","0",".","1",":","8","0","8","0","/">>
    [] construction.defaultEndpointURL = URLNoSlash -> <<"h","t","t","p",":","/","/","1","2","7",".","0",".","0",".","1",":","8","0","8","0","/","a","p","i","/">>
    [] OTHER -> <<"h","t","t","p","s",":","/","/","a","p","i",".","s","u","m","o","l","o","g","i","c",".","c","o","m","/","a","p","i","/","v","1","/">>

ExpectedMethod ==
  CASE call.fn \in GetFns -> "GET"
    [] call.fn \in CreateFns -> "POST"
    [] call.fn \in UpdateFns -> "PUT"
    [] call.fn \in DeleteFns -> "DELETE"

\* The identifier of the resource addressed: an argument of Get and Delete,
\* the ID field of the resource passed to Update.
AddressedID == IF call.fn \in UpdateFns THEN call.resource.ID ELSE call.id

ExpectedPath ==
  CASE call.fn = "CreateHostedCollector" -> <<"c","o","l","l","e","c","t","o","r","s">>
    [] call.fn \in CollectorFns \ CreateFns ->
         <<"c","o","l","l","e","c","t","o","r","s","/">> \o Itoa(AddressedID)
    [] call.fn \in CreateFns \ CollectorFns ->
         <<"c","o","l","l","e","c","t","o","r","s","/">> \o Itoa(call.collectorID) \o <<"/","s","o","u","r","c","e","s">>
    [] OTHER ->
         <<"c","o","l","l","e","c","t","o","r","s","/">> \o Itoa(call.collectorID) \o <<"/","s","o","u","r","c","e","s","/">>
           \o Itoa(AddressedID)

C11_MethodAndPath ==
  InCall =>
    /\ request.method = ExpectedMethod
    /\ request.url = ExpectedBase \o ExpectedPath

C11_Witness ==
  /\ pc = "waiting"
  /\ call.fn = "GetHTTPSource"
  /\ call.collectorID = DefaultID
  /\ call.id = 1
  /\ request.method = "GET"
  /\ request.url = <<"h","t","t","p","s",":","/","/","a","p","i",".","s","u","m","o","l","o","g","i","c",".","c","o","m","/","a","p","i","/","v","1","/","c","o","l","l","e","c","t","o","r","s","/","1","2","3","4","5","6","7","8","9","0","/","s","o","u","r","c","e","s","/","1">>

(***************************************************************************)
(* C12.  Every request of every function carries the header Authorization *)
(* with the value "Basic " followed by the token given to NewClient,       *)
(* character for character.                                                *)
(***************************************************************************)
C12_AuthorizationHeader ==
  InCall =>
    /\ "Authorization" \in DOMAIN request.header
    /\ request.header["Authorization"] = << <<"B","a","s","i","c"," ">> \o construction.authToken >>
    /\ sent = <<request>>

C12_Witness ==
  /\ pc = "waiting"
  /\ call.fn = "DeleteAWSLogSource"
  /\ request.header["Authorization"] = << <<"B","a","s","i","c"," ","a","c","c","e","s","s","I","d",":","a","c","c","e","s","s","K","e","y">> >>

(***************************************************************************)
(* C13.  Every request that carries a body (the POST of Create and the PUT *)
(* of Update, of the four kinds) carries the header Content-Type:          *)
(* application/json, and its body is an object with one key, "collector"   *)
(* or "source", that holds the resource: never the resource alone.         *)
(***************************************************************************)
C13_BodyInEnvelope ==
  (InCall /\ request.body # NoBody) =>
    /\ call.fn \in CreateFns \cup UpdateFns
    /\ "Content-Type" \in DOMAIN request.header
    /\ request.header["Content-Type"] = << <<"a","p","p","l","i","c","a","t","i","o","n","/","j","s","o","n">> >>
    /\ request.body.t = "obj"
    /\ DOMAIN request.body.v = {EnvelopeKey(call.fn)}
    /\ request.body.v[EnvelopeKey(call.fn)].t = "obj"
    /\ "name" \in DOMAIN request.body.v[EnvelopeKey(call.fn)].v
    /\ request.body.v[EnvelopeKey(call.fn)].v["name"].v = call.resource.Name

C13_Witness ==
  /\ pc = "waiting"
  /\ call.fn = "CreateAWSCloudTrailSource"
  /\ call.resource = RichAWSCloudTrailSource
  /\ request.header["Content-Type"] = << <<"a","p","p","l","i","c","a","t","i","o","n","/","j","s","o","n">> >>
  /\ DOMAIN request.body.v = {"source"}
  /\ request.body.v["source"].v["name"].v = NameUpdated

(***************************************************************************)
(* C14.  NewClient(authToken, baseURL) returns an error and no client      *)
(* exactly when baseURL cannot be parsed as a URL; otherwise it returns a  *)
(* client whose AuthToken is the token given and whose EndpointURL is the  *)
(* parsed baseURL; and it issues no request.                               *)
(***************************************************************************)
\* The base URLs of the inputs that are not URLs: one without a scheme
\* before its colon, one with a space in its host.
Unparsable == {URLNoScheme, URLBadHost}

\* NewClient has returned.
Constructed == pc # "start"

C14_NewClientState ==
  Constructed =>
    /\ (construction.err # NoErr) <=> (construction.defaultEndpointURL \in Unparsable)
    /\ (construction.err # NoErr) <=> (client = Nil)
    /\ construction.err = NoErr =>
         /\ client.AuthToken = construction.authToken
         /\ construction.defaultEndpointURL = URLTest =>
              client.EndpointURL =
                [Scheme |-> <<"h","t","t","p">>, Host |-> <<"1","2","7",".","0",".","0",".","1",":","8","0","8","0">>, Path |-> <<>>]
         /\ construction.defaultEndpointURL = URLWithPath =>
              client.EndpointURL =
                [Scheme |-> <<"h","t","t","p","s">>, Host |-> <<"a","p","i",".","s","u","m","o","l","o","g","i","c",".","c","o","m">>,
                 Path |-> <<"/","a","p","i","/","v","1","/">>]
         /\ construction.defaultEndpointURL = URLNoSlash =>
              client.EndpointURL =
                [Scheme |-> <<"h","t","t","p">>, Host |-> <<"1","2","7",".","0",".","0",".","1",":","8","0","8","0">>,
                 Path |-> <<"/","a","p","i","/","v","1">>]

C14_NewClient ==
  /\ []C14_NewClientState
  /\ [][(pc = "start" /\ pc' # "start") =>
          (sent' = <<>> /\ UNCHANGED <<request, sent, outcome>>)]_vars

C14_Witness ==
  /\ pc = "failed"
  /\ construction.defaultEndpointURL = URLNoScheme
  /\ construction.err.id = "url.Error"
  /\ client = Nil
  /\ sent = <<>>

(***************************************************************************)
(* C15.  The Client is immutable after construction: no Get, Create,       *)
(* Update or Delete of any kind, whatever its outcome, changes the         *)
(* client's AuthToken or EndpointURL; after any sequence of calls both     *)
(* hold what NewClient set.                                                *)
(***************************************************************************)
C15_ClientAsConstructed ==
  pc \notin {"start", "failed"} =>
    /\ client.AuthToken = construction.authToken
    /\ client.EndpointURL = ParseURL(construction.defaultEndpointURL).url

C15_ClientImmutable ==
  /\ []C15_ClientAsConstructed
  /\ [][pc # "start" => (client' = client /\ construction' = construction)]_vars

C15_Witness ==
  /\ pc = "done"
  /\ call.fn = "UpdateAWSLogSource"
  /\ result.err # NoErr
  /\ construction.authToken = TokenRaw
  /\ client.AuthToken = TokenRaw
  /\ client.EndpointURL.Path = <<"/","a","p","i","/","v","1","/">>

(***************************************************************************)
(* C16.  Every call of every function issues exactly one HTTP request,     *)
(* whatever the outcome (success, 401, 404, 400 with or without            *)
(* ErrAwsAuthenticationError, unexpected status, decode error, transport   *)
(* error): nothing is sent again.  DeleteHostedCollector issues the DELETE *)
(* on collectors/{id} and no request on a source of the collector.         *)
(***************************************************************************)
C16_OneRequestPerCall ==
  /\ InCall =>
       /\ Len(sent) = 1
       /\ sent[1] = request
  /\ ~InCall => sent = <<>>
  /\ (InCall /\ call.fn = "DeleteHostedCollector") =>
       /\ sent[1].method = "DELETE"
       /\ sent[1].url = ExpectedBase \o <<"c","o","l","l","e","c","t","o","r","s","/">> \o Itoa(call.id)
       /\ ~Contains(sent[1].url, <<"s","o","u","r","c","e","s">>)

C16_Witness ==
  /\ pc = "done"
  /\ call.fn = "CreateAWSLogSource"
  /\ result.err = ErrAwsAuthenticationError
  /\ Len(sent) = 1
  /\ sent[1].method = "POST"

(***************************************************************************)
(* The functions by name: the request a call builds and the results it     *)
(* returns for an outcome of the transport.                                *)
(***************************************************************************)
RequestOf(s, c) ==
  CASE c.fn = "GetHostedCollector" -> GetHostedCollectorRequest(s, c.id)
    [] c.fn = "CreateHostedCollector" -> CreateHostedCollectorRequest(s, c.resource)
    [] c.fn = "UpdateHostedCollector" ->
         UpdateHostedCollectorRequest(s, c.resource, c.etag)
    [] c.fn = "DeleteHostedCollector" -> DeleteHostedCollectorRequest(s, c.id)
    [] c.fn = "GetHTTPSource" -> GetHTTPSourceRequest(s, c.collectorID, c.id)
    [] c.fn = "CreateHTTPSource" ->
         CreateHTTPSourceRequest(s, c.collectorID, c.resource)
    [] c.fn = "UpdateHTTPSource" ->
         UpdateHTTPSourceRequest(s, c.collectorID, c.resource, c.etag)
    [] c.fn = "DeleteHTTPSource" -> DeleteHTTPSourceRequest(s, c.collectorID, c.id)
    [] c.fn = "GetAWSCloudTrailSource" ->
         GetAWSCloudTrailSourceRequest(s, c.collectorID, c.id)
    [] c.fn = "CreateAWSCloudTrailSource" ->
         CreateAWSCloudTrailSourceRequest(s, c.collectorID, c.resource)
    [] c.fn = "UpdateAWSCloudTrailSource" ->
         UpdateAWSCloudTrailSourceRequest(s, c.collectorID, c.resource, c.etag)
    [] c.fn = "DeleteAWSCloudTrailSource" ->
         DeleteAWSCloudTrailSourceRequest(s, c.collectorID, c.id)
    [] c.fn = "GetAWSLogSource" -> GetAWSLogSourceRequest(s, c.collectorID, c.id)
    [] c.fn = "CreateAWSLogSource" ->
         CreateAWSLogSourceRequest(s, c.collectorID, c.resource)
    [] c.fn = "UpdateAWSLogSource" ->
         UpdateAWSLogSourceRequest(s, c.collectorID, c.resource, c.etag)
    [] c.fn = "DeleteAWSLogSource" ->
         DeleteAWSLogSourceRequest(s, c.collectorID, c.id)

ResultOf(c, o) ==
  CASE c.fn = "GetHostedCollector" -> GetHostedCollectorResult(o)
    [] c.fn = "CreateHostedCollector" -> CreateHostedCollectorResult(c.resource, o)
    [] c.fn = "UpdateHostedCollector" -> UpdateHostedCollectorResult(c.resource, o)
    [] c.fn = "DeleteHostedCollector" -> DeleteHostedCollectorResult(o)
    [] c.fn = "GetHTTPSource" -> GetHTTPSourceResult(o)
    [] c.fn = "CreateHTTPSource" -> CreateHTTPSourceResult(c.resource, o)
    [] c.fn = "UpdateHTTPSource" -> UpdateHTTPSourceResult(c.resource, o)
    [] c.fn = "DeleteHTTPSource" -> DeleteHTTPSourceResult(o)
    [] c.fn = "GetAWSCloudTrailSource" -> GetAWSCloudTrailSourceResult(o)
    [] c.fn = "CreateAWSCloudTrailSource" ->
         CreateAWSCloudTrailSourceResult(c.resource, o)
    [] c.fn = "UpdateAWSCloudTrailSource" ->
         UpdateAWSCloudTrailSourceResult(c.resource, o)
    [] c.fn = "DeleteAWSCloudTrailSource" -> DeleteAWSCloudTrailSourceResult(o)
    [] c.fn = "GetAWSLogSource" -> GetAWSLogSourceResult(o)
    [] c.fn = "CreateAWSLogSource" -> CreateAWSLogSourceResult(c.resource, o)
    [] c.fn = "UpdateAWSLogSource" -> UpdateAWSLogSourceResult(c.resource, o)
    [] c.fn = "DeleteAWSLogSource" -> DeleteAWSLogSourceResult(o)

(***************************************************************************)
(* The client against a remote system with optimistic concurrency.  The    *)
(* remote system holds one resource of one kind and a version that grows   *)
(* with every change; the ETag of the resource names the version.  It      *)
(* answers a GET with the resource and its ETag, applies a PUT whose       *)
(* If-Match is the current ETag (or that has none), and rejects any other  *)
(* PUT, leaving the resource alone.  Another caller changes the resource   *)
(* at any moment before the answer.                                        *)
(***************************************************************************)
\* The version of the remote resource stays below MaxVersion.
MaxVersion == 4

Kinds == {"HostedCollector", "HTTPSource", "AWSCloudTrailSource", "AWSLogSource"}

GetOf(kind) ==
  CASE kind = "HostedCollector" -> "GetHostedCollector"
    [] kind = "HTTPSource" -> "GetHTTPSource"
    [] kind = "AWSCloudTrailSource" -> "GetAWSCloudTrailSource"
    [] kind = "AWSLogSource" -> "GetAWSLogSource"

UpdateOf(kind) ==
  CASE kind = "HostedCollector" -> "UpdateHostedCollector"
    [] kind = "HTTPSource" -> "UpdateHTTPSource"
    [] kind = "AWSCloudTrailSource" -> "UpdateAWSCloudTrailSource"
    [] kind = "AWSLogSource" -> "UpdateAWSLogSource"

\* The collector a source of the remote system belongs to (a collector has
\* none).
OwnerOf(kind) == IF kind = "HostedCollector" THEN 0 ELSE DefaultID

InitialResource(kind) ==
  IF kind = "HostedCollector"
  THEN NewCollector(DefaultID, NameTest)
  ELSE NewSource(kind, DefaultID, NameTest, DefaultID)

NameOther == <<"o","t","h","e","r">>

ServerNames == {NameTest, NameUpdated, NameOther}

ETagOf(version) == <<"v">> \o Itoa(version)

\* The resource in its envelope, as the remote system writes it.
EnvelopeOf(fn, res) ==
  Marshal(EnvelopeType(fn),
          [f \in {EnvelopeField(fn)} |-> res])

\* The resource the remote system reads in the body of a PUT.
ResourceIn(fn, body) ==
  Unmarshal(EnvelopeType(fn), body, Zero(EnvelopeType(fn))).val[EnvelopeField(fn)]

Answer(status, header, body) ==
  [kind |-> "response", err |-> NoErr,
   resp |-> [StatusCode |-> status, Header |-> header, Body |-> body]]

\* A PUT is rejected with one of these statuses and the API's error body,
\* or none.
RejectStatuses == {StatusBadRequest, 409, 412}

RejectBodies == {ErrorBody(<<"T","h","e"," ","r","e","s","o","u","r","c","e"," ","w","a","s"," ","m","o","d","i","f","i","e","d",".">>), BodyEmpty}

\* The precondition of a PUT: its If-Match, if it has one.
Precondition(req) ==
  IF "If-Match" \in DOMAIN req.header
  THEN [present |-> TRUE, etag |-> req.header["If-Match"][1]]
  ELSE [present |-> FALSE, etag |-> <<>>]

InitServer ==
  /\ construction = [authToken |-> TokenTest, defaultEndpointURL |-> URLTest,
                     err |-> NoErr]
  /\ client = TestClient
  /\ pc = "idle"
  /\ call = NoCall
  /\ request = NoRequest
  /\ sent = <<>>
  /\ outcome = NoOutcome
  /\ result = NoResult
  /\ \E kind \in Kinds :
       server = [kind |-> kind, res |-> InitialResource(kind), version |-> 1,
                 writer |-> "init"]
  /\ held = NoHeld
  /\ other = NoCaller

\* The caller gets the resource.
GetResource ==
  /\ pc = "idle"
  /\ LET c == [fn |-> GetOf(server.kind), collectorID |-> OwnerOf(server.kind),
               id |-> DefaultID, resource |-> Nil, etag |-> <<>>]
     IN Issue(c.fn, c.collectorID, c.id, c.resource, c.etag, RequestOf(client, c))

\* The caller updates the resource it got, with the ETag it got.
UpdateResource ==
  /\ pc = "idle"
  /\ held # NoHeld
  /\ server.version < MaxVersion
  /\ \E name \in ServerNames \ {held.res.Name} :
       LET c == [fn |-> UpdateOf(server.kind), collectorID |-> OwnerOf(server.kind),
                 id |-> 0, resource |-> [held.res EXCEPT !.Name = name],
                 etag |-> held.etag]
       IN Issue(c.fn, c.collectorID, c.id, c.resource, c.etag, RequestOf(client, c))

ServerAnswersGet ==
  /\ pc = "waiting"
  /\ request.method = "GET"
  /\ LET o == Answer(StatusOK, "Etag" :> <<ETagOf(server.version)>>,
                     EnvelopeOf(call.fn, server.res))
     IN Complete(o, ResultOf(call, o))

ServerAcceptsPut ==
  /\ pc = "waiting"
  /\ request.method = "PUT"
  /\ LET p == Precondition(request)
     IN p.present => p.etag = ETagOf(server.version)
  /\ LET res == ResourceIn(call.fn, request.body)
         o == Answer(StatusOK, "Etag" :> <<ETagOf(server.version + 1)>>,
                     EnvelopeOf(call.fn, res))
     IN /\ server' = [server EXCEPT !.res = res, !.version = @ + 1,
                                    !.writer = "client"]
        /\ pc' = "done"
        /\ outcome' = o
        /\ result' = ResultOf(call, o)
  /\ UNCHANGED <<construction, client, call, request, sent, held, other>>

ServerRejectsPut ==
  /\ pc = "waiting"
  /\ request.method = "PUT"
  /\ LET p == Precondition(request)
     IN p.present /\ p.etag # ETagOf(server.version)
  /\ \E status \in RejectStatuses, body \in RejectBodies :
       LET o == Answer(status, NoHeader, body)
       IN Complete(o, ResultOf(call, o))

\* The caller takes the results, and keeps what a Get returned.
TakeResult ==
  /\ pc = "done"
  /\ pc' = "idle"
  /\ held' = IF call.fn \in GetFns /\ result.err = NoErr /\ ~result.panicked
             THEN [res |-> result.res, etag |-> result.etag, stale |-> FALSE]
             ELSE held
  /\ call' = NoCall
  /\ request' = NoRequest
  /\ sent' = <<>>
  /\ outcome' = NoOutcome
  /\ result' = NoResult
  /\ UNCHANGED <<construction, client, server, other>>

\* Another caller changes the resource: what the caller holds is stale.
OtherCallerChanges ==
  /\ pc \in {"idle", "waiting"}
  /\ server.version < MaxVersion
  /\ \E name \in ServerNames \ {server.res.Name} :
       server' = [server EXCEPT !.res.Name = name, !.version = @ + 1,
                                !.writer = "other"]
  /\ held' = IF held = NoHeld THEN held ELSE [held EXCEPT !.stale = TRUE]
  /\ UNCHANGED <<construction, client, pc, call, request, sent, outcome, result,
                 other>>

NextServer ==
  \/ GetResource
  \/ UpdateResource
  \/ ServerAnswersGet
  \/ ServerAcceptsPut
  \/ ServerRejectsPut
  \/ TakeResult
  \/ OtherCallerChanges

SpecServer == InitServer /\ [][NextServer]_vars

(***************************************************************************)
(* C17.  Optimistic concurrency: against a server that changes the ETag    *)
(* of a resource with every change and rejects a PUT whose If-Match is not *)
(* the current ETag, an Update called with the ETag of an earlier Get      *)
(* returns a non-nil error and no resource whenever another caller changed *)
(* the resource in between; the server keeps the other caller's version;   *)
(* and the client does not send the rejected Update again.                 *)
(***************************************************************************)
C17_StaleUpdateRejected ==
  (/\ pc = "done"
   /\ call.fn \in UpdateFns
   /\ held.stale) =>
    /\ call.etag = held.etag
    /\ ~result.panicked
    /\ result.err # NoErr
    /\ result.res = Nil
    /\ server.writer = "other"
    /\ Len(sent) = 1

C17_Witness ==
  /\ pc = "done"
  /\ call.fn = "UpdateHTTPSource"
  /\ held.stale
  /\ call.etag = <<"v","1">>
  /\ server.version = 2
  /\ server.res.Name = NameOther
  /\ call.resource.Name = NameUpdated
  /\ StatusOf = 412
  /\ result.err # NoErr

(***************************************************************************)
(* C18.  No caching: every Get issues a new GET request and returns the    *)
(* resource and the ETag of its response; when the state of the resource   *)
(* on the server has changed since an earlier Get, the later Get returns   *)
(* the new state and never the earlier one.                                *)
(***************************************************************************)
C18_GetReturnsCurrentState ==
  (pc = "done" /\ call.fn \in GetFns) =>
    /\ Len(sent) = 1
    /\ sent[1].method = "GET"
    /\ result.err = NoErr
    /\ result.res = server.res
    /\ result.etag = ETagOf(server.version)
    /\ (held # NoHeld /\ held.etag # ETagOf(server.version)) =>
         /\ result.etag # held.etag
         /\ <<result.res, result.etag>> # <<held.res, held.etag>>

C18_Witness ==
  /\ pc = "done"
  /\ call.fn = "GetAWSCloudTrailSource"
  /\ held # NoHeld
  /\ held.res.Name = NameTest
  /\ held.etag = <<"v","1">>
  /\ result.res.Name = NameOther
  /\ result.etag = <<"v","2">>

(***************************************************************************)
(* Two callers of one Client.  Each caller runs the functions as above;    *)
(* the first caller's position, arguments, request, outcome and results    *)
(* are the variables pc, call, request, sent, outcome and result, the      *)
(* second caller's are the fields of other.  The functions share the       *)
(* Client, which they read, and the transport, which answers each request  *)
(* on its own.                                                             *)
(***************************************************************************)
\* The calls of the two callers: every function, on a resource named one
\* way or the other.
ConcurrentCalls ==
  {[fn |-> GetOf(kind), collectorID |-> OwnerOf(kind), id |-> 1,
    resource |-> Nil, etag |-> <<>>] : kind \in Kinds}
  \cup
  {[fn |-> fn[2], collectorID |-> OwnerOf(fn[1]), id |-> 1, resource |-> Nil,
    etag |-> <<>>] :
      fn \in {<<"HostedCollector", "DeleteHostedCollector">>,
              <<"HTTPSource", "DeleteHTTPSource">>,
              <<"AWSCloudTrailSource", "DeleteAWSCloudTrailSource">>,
              <<"AWSLogSource", "DeleteAWSLogSource">>}}
  \cup
  {[fn |-> fn[2], collectorID |-> OwnerOf(fn[1]), id |-> 0,
    resource |-> [InitialResource(fn[1]) EXCEPT !.Name = name],
    etag |-> IF fn[2] = UpdateOf(fn[1]) THEN <<"e","t","a","g">> ELSE <<>>] :
      fn \in {<<"HostedCollector", "CreateHostedCollector">>,
              <<"HTTPSource", "CreateHTTPSource">>,
              <<"AWSCloudTrailSource", "CreateAWSCloudTrailSource">>,
              <<"AWSLogSource", "CreateAWSLogSource">>,
              <<"HostedCollector", "UpdateHostedCollector">>,
              <<"HTTPSource", "UpdateHTTPSource">>,
              <<"AWSCloudTrailSource", "UpdateAWSCloudTrailSource">>,
              <<"AWSLogSource", "UpdateAWSLogSource">>},
      name \in {NameTest, NameUpdated}}

\* What the transport yields to a caller.
ConcurrentOutcomes ==
  {[kind |-> "error", err |-> TransportError, resp |-> NoResponse]}
    \cup {Answer(StatusOK, "Etag" :> <<<<"v","1">>>>, EnvSourceMinimal),
          Answer(StatusOK, NoHeader,
                 Marshal("CollectorRequest", [Collector |-> RichCollector])),
          Answer(StatusCreated, NoHeader, EnvSourceMinimal),
          Answer(StatusBadRequest, NoHeader, ErrorBody(SampleCannotAuthenticate)),
          Answer(StatusUnauthorized, NoHeader, BodyEmpty),
          Answer(StatusNotFound, NoHeader, BodyEmpty)}

Caller(p, c, req, s, o, res) ==
  [pc |-> p, call |-> c, request |-> req, sent |-> s, outcome |-> o,
   result |-> res]

IdleCaller == Caller("idle", NoCall, NoRequest, <<>>, NoOutcome, NoResult)

InitConcurrent ==
  /\ construction = [authToken |-> TokenRaw, defaultEndpointURL |-> URLWithPath,
                     err |-> NoErr]
  /\ client = NewClientResult(TokenRaw, URLWithPath).client
  /\ pc = "idle"
  /\ call = NoCall
  /\ request = NoRequest
  /\ sent = <<>>
  /\ outcome = NoOutcome
  /\ result = NoResult
  /\ server = NoServer
  /\ held = NoHeld
  /\ other = IdleCaller

\* The first caller calls a function, the function returns, and the caller
\* takes the results.
Call ==
  /\ pc = "idle"
  /\ \E c \in ConcurrentCalls :
       Issue(c.fn, c.collectorID, c.id, c.resource, c.etag, RequestOf(client, c))

Return ==
  /\ pc = "waiting"
  /\ \E o \in ConcurrentOutcomes : Complete(o, ResultOf(call, o))

\* (Mutant: the request under construction is shared by the callers.)
OtherIssueSharedRequest(c) ==
  /\ other' = Caller("waiting", c, RequestOf(client, c),
                     <<RequestOf(client, c)>>, NoOutcome, NoResult)
  /\ request' = RequestOf(client, c)
  /\ UNCHANGED <<construction, client, pc, call, sent, outcome, result,
                 server, held>>

\* The second caller's call builds its own request from the Client.
OtherIssue(c) ==
  /\ other' = Caller("waiting", c, RequestOf(client, c),
                     <<RequestOf(client, c)>>, NoOutcome, NoResult)
  /\ UNCHANGED <<construction, client, pc, call, request, sent, outcome, result,
                 server, held>>

OtherCall ==
  /\ other.pc = "idle"
  /\ \E c \in ConcurrentCalls : OtherIssue(c)

OtherReturn ==
  /\ other.pc = "waiting"
  /\ \E o \in ConcurrentOutcomes :
       other' = [other EXCEPT !.pc = "done", !.outcome = o,
                              !.result = ResultOf(other.call, o)]
  /\ UNCHANGED <<construction, client, pc, call, request, sent, outcome, result,
                 server, held>>

OtherDone ==
  /\ other.pc = "done"
  /\ other' = IdleCaller
  /\ UNCHANGED <<construction, client, pc, call, request, sent, outcome, result,
                 server, held>>

NextConcurrent ==
  \/ Call
  \/ Return
  \/ Done
  \/ OtherCall
  \/ OtherReturn
  \/ OtherDone

SpecConcurrent == InitConcurrent /\ [][NextConcurrent]_vars

(***************************************************************************)
(* C19.  One Client is safe for concurrent use: when two callers run       *)
(* functions on the same Client at the same time, in every interleaving    *)
(* each call sends the request of its own arguments and returns the        *)
(* results of its own arguments and of the response to its own request,    *)
(* and no step of a call changes the Client or anything of the other       *)
(* call.                                                                   *)
(***************************************************************************)
\* The first caller, as a record.
First == Caller(pc, call, request, sent, outcome, result)

\* A call in progress has sent the request of its arguments, and a call
\* that returned has the results of its arguments and outcome.
OwnResults(k) ==
  /\ k.pc \in {"waiting", "done"} =>
       /\ k.request = RequestOf(NewClientResult(TokenRaw, URLWithPath).client, k.call)
       /\ k.sent = <<k.request>>
       /\ k.request.header["Authorization"] = << <<"B","a","s","i","c"," ","a","c","c","e","s","s","I","d",":","a","c","c","e","s","s","K","e","y">> >>
       /\ HasAt(k.request.url, 1, <<"h","t","t","p","s",":","/","/","a","p","i",".","s","u","m","o","l","o","g","i","c",".","c","o","m","/","a","p","i","/","v","1","/","c","o","l","l","e","c","t","o","r","s">>)
  /\ k.pc = "done" => k.result = ResultOf(k.call, k.outcome)

C19_CallsIndependentState ==
  /\ OwnResults(First)
  /\ OwnResults(other)
  /\ client = NewClientResult(TokenRaw, URLWithPath).client

C19_ConcurrentUse ==
  /\ []C19_CallsIndependentState
  /\ [][/\ client' = client
        /\ other' # other => First' = First
        /\ First' # First => other' = other]_vars

C19_Witness ==
  /\ pc = "done"
  /\ other.pc = "done"
  /\ call.fn = "CreateHTTPSource"
  /\ other.call.fn = "UpdateAWSLogSource"
  /\ result.err = NoErr
  /\ result.res.ID = DefaultID
  /\ other.result.err = ErrAwsAuthenticationError

(***************************************************************************)
(* The round trip of a resource through its envelope.  A Create or Update  *)
(* function encodes the resource it is given into the body of its request  *)
(* (Encode); the remote system answers with that same body, and the        *)
(* function decodes the answer into the resource it returns (DecodeBack).  *)
(***************************************************************************)
CreateOf(kind) ==
  CASE kind = "HostedCollector" -> "CreateHostedCollector"
    [] kind = "HTTPSource" -> "CreateHTTPSource"
    [] kind = "AWSCloudTrailSource" -> "CreateAWSCloudTrailSource"
    [] kind = "AWSLogSource" -> "CreateAWSLogSource"

\* A name whose last byte is not part of a UTF-8 sequence.
NameInvalidUTF8 == <<"t", "0xFF">>

RoundTripNames == {NameTest, <<>>, NameInvalidUTF8}

RoundTripIDs == {0, DefaultID}

\* The one element the slice of a resource of the kind can hold.
SliceElement(kind) ==
  CASE kind = "HostedCollector" ->
         [Rel |-> <<"s","o","u","r","c","e","s">>, Href |-> <<"/","v","1","/","c","o","l","l","e","c","t","o","r","s","/","1","/","s","o","u","r","c","e","s">>]
    [] kind = "HTTPSource" ->
         [FilterType |-> <<"E","x","c","l","u","d","e">>, Name |-> <<"f">>, Regexp |-> <<>>]
    [] OTHER -> BucketResource

\* A nil slice, an empty slice that is not nil, and a slice of one element.
RoundTripSlices(kind) == {NilSlice, MkSlice(<<>>), MkSlice(<<SliceElement(kind)>>)}

\* The resource of the kind with the id, the name, the slice and the flag;
\* every other field holds its zero value.
RoundTripResource(kind, id, name, slice, flag) ==
  CASE kind = "HostedCollector" ->
         [NewCollector(id, name) EXCEPT !.Links = slice, !.Alive = flag]
    [] kind = "HTTPSource" ->
         [NewSource("HTTPSource", id, name, id) EXCEPT
            !.Filters = slice, !.MessagePerRequest = flag]
    [] kind = "AWSCloudTrailSource" ->
         [NewSource("AWSCloudTrailSource", id, name, id) EXCEPT
            !.ThirdPartyRef = [Resources |-> slice], !.Paused = flag]
    [] kind = "AWSLogSource" ->
         [NewSource("AWSLogSource", id, name, id) EXCEPT
            !.ThirdPartyRef = [Resources |-> slice], !.UseAutolineMatching = flag]

RoundTripResources(kind) ==
  {RoundTripResource(kind, id, name, slice, flag) :
     id \in RoundTripIDs, name \in RoundTripNames,
     slice \in RoundTripSlices(kind), flag \in BOOLEAN}

RoundTripCalls ==
  UNION {{[fn |-> fn, collectorID |-> OwnerOf(kind), id |-> 0, resource |-> r,
           etag |-> <<>>] :
            fn \in {CreateOf(kind), UpdateOf(kind)}, r \in RoundTripResources(kind)} :
         kind \in Kinds}

\* A caller holds a client and a resource and is about to call a Create or
\* an Update function with it.
InitRoundTrip ==
  /\ construction = [authToken |-> TokenTest, defaultEndpointURL |-> URLTest,
                     err |-> NoErr]
  /\ client = TestClient
  /\ pc = "given"
  /\ call \in RoundTripCalls
  /\ request = NoRequest
  /\ sent = <<>>
  /\ outcome = NoOutcome
  /\ result = NoResult
  /\ server = NoServer
  /\ held = NoHeld
  /\ other = NoCaller

\* The function encodes the resource into the body of its request.
Encode ==
  /\ pc = "given"
  /\ pc' = "encoded"
  /\ request' = RequestOf(client, call)
  /\ sent' = <<RequestOf(client, call)>>
  /\ UNCHANGED <<construction, client, call, outcome, result, env>>

\* The remote system answers with the body it was sent, and the function
\* decodes the answer.
DecodeBack ==
  /\ pc = "encoded"
  /\ pc' = "decoded"
  /\ LET echo == Answer(IF call.fn \in CreateFns THEN StatusCreated ELSE StatusOK,
                        NoHeader, request.body)
     IN /\ outcome' = echo
        /\ result' = ResultOf(call, echo)
  /\ UNCHANGED <<construction, client, call, request, sent, env>>

NextRoundTrip ==
  \/ Encode
  \/ DecodeBack

SpecRoundTrip == InitRoundTrip /\ [][NextRoundTrip]_vars

\* The Go value v of type ty survives the encoding as it is: its strings are
\* valid UTF-8, and its slices are nil or hold an element.
RECURSIVE Populated(_, _)
Populated(ty, v) ==
  CASE ty \in IntTypes -> TRUE
    [] ty = "bool" -> TRUE
    [] ty = "string" -> \A i \in 1..Len(v) : v[i] # "0xFF"
    [] ty \in SliceTypes ->
         \/ v.isnil
         \/ /\ Len(v.elems) > 0
            /\ \A i \in 1..Len(v.elems) : Populated(ElemType(ty), v.elems[i])
    [] OTHER -> \A n \in FieldNames(ty) : Populated(StructFields(ty)[n].type, v[n])

\* The function returned a resource, and it is the one it was given.
ReturnsOriginal ==
  /\ result.err = NoErr
  /\ ~result.panicked
  /\ result.res = call.resource

\* C20 (as the code has it): a resource whose strings are valid UTF-8 and
\* whose slices are nil or hold an element is, after it was encoded into its
\* envelope and the envelope was decoded back, equal to the original field
\* for field, the fields that hold their zero value and are left out of the
\* envelope included; every other resource comes back without an error but
\* differs from the original (an empty slice comes back nil, and a byte that
\* is not UTF-8 comes back as U+FFFD).
C20_RoundTripPopulated ==
  pc = "decoded" =>
    /\ result.err = NoErr
    /\ ~result.panicked
    /\ ReturnsOriginal <=> Populated(ResourceType(call.fn), call.resource)

\* A collector with no id, an empty name, no links and Alive false came back
\* as it was: "id", "links" and "alive" were not in the envelope.
C20_Witness ==
  /\ pc = "decoded"
  /\ call.fn = "CreateHostedCollector"
  /\ call.resource = Zero("Collector")
  /\ "name" \in DOMAIN request.body.v["collector"].v
  /\ {"id", "links", "alive"} \cap DOMAIN request.body.v["collector"].v = {}
  /\ ReturnsOriginal

\* C20 (as the specification has it): every resource of each of the four
\* kinds is, after it was encoded into its envelope and the envelope was
\* decoded back, equal to the original field for field.
C20_RoundTripEvery ==
  pc = "decoded" => ReturnsOriginal

(***************************************************************************)
(* Errors and results of the sixteen functions, response by response.      *)
(***************************************************************************)
ResourceFns == GetFns \cup CreateFns \cup UpdateFns

\* The one status a function takes for success.
SuccessStatus(fn) == IF fn \in CreateFns THEN 201 ELSE 200

\* The errors the functions derive from the status of a response.
StatusErrorIds ==
  {"ErrClientAuthenticationError", "ErrCollectorNotFound", "ErrSourceNotFound",
   "ErrAwsAuthenticationError"}

\* json.Unmarshal reports an error for the body decoded as the envelope of
\* the function.
Undecodable(fn, body) ==
  Unmarshal(EnvelopeType(fn), body, Zero(EnvelopeType(fn))).err # NoErr

\* C21: when the response has the success status of the function (200 for
\* Get and Update, 201 for Create) and a body that does not decode as the
\* envelope (empty, truncated, or a value of the wrong JSON type), the
\* function returns no resource and the decoder's error, which is none of
\* ErrClientAuthenticationError, ErrCollectorNotFound, ErrSourceNotFound,
\* ErrAwsAuthenticationError, and not the unexpected-status error.
C21_DecodeErrorOnSuccessStatus ==
  (/\ Responded
   /\ call.fn \in ResourceFns
   /\ StatusOf = SuccessStatus(call.fn)
   /\ Undecodable(call.fn, outcome.resp.Body)) =>
    /\ ~result.panicked
    /\ result.res = Nil
    /\ result.etag = <<>>
    /\ result.err \in {JSONSyntaxError, JSONTypeError}
    /\ result.err # NoErr
    /\ result.err.id \notin StatusErrorIds
    /\ result.err.id # "fmt.Errorf"
    /\ ~IsUnexpectedStatus(result.err, StatusOf)

\* CreateAWSCloudTrailSource got 201 and a truncated body.
C21_Witness ==
  /\ Responded
  /\ call.fn = "CreateAWSCloudTrailSource"
  /\ StatusOf = 201
  /\ outcome.resp.Body = BodySyntax
  /\ result.res = Nil
  /\ result.err = JSONSyntaxError

\* The call has returned, and the transport had failed: client.Do returned
\* an error and no response.
TransportFailed == pc = "done" /\ outcome.kind = "error"

\* C22: when the transport fails and no response is received, each of the
\* sixteen functions returns the error of the transport as it is, no
\* resource and (for Get) an empty ETag, and none of the errors derived
\* from a status.
C22_TransportErrorUnchanged ==
  TransportFailed =>
    /\ ~result.panicked
    /\ result.err = outcome.err
    /\ result.err # NoErr
    /\ result.res = Nil
    /\ result.etag = <<>>
    /\ result.err.id \notin StatusErrorIds
    /\ result.err.id # "fmt.Errorf"

\* DeleteHTTPSource returned the error of the transport.
C22_Witness ==
  /\ TransportFailed
  /\ call.fn = "DeleteHTTPSource"
  /\ outcome.err = TransportError
  /\ result.err = TransportError

\* C23: for every Get, Create and Update of every kind and for every
\* response or transport failure, the function returns, the resource it
\* returns is non-nil exactly when the error it returns is nil, and when Get
\* returns a non-nil error the ETag it returns is the empty string.
C23_ResourceIffNoError ==
  (pc = "done" /\ call.fn \in ResourceFns) =>
    /\ ~result.panicked
    /\ (result.res # Nil) <=> (result.err = NoErr)
    /\ (call.fn \in GetFns /\ result.err # NoErr) => result.etag = <<>>

\* The 2xx statuses a response of the model can have.
Statuses2xx == {200, 201, 204}

\* C24: each function has exactly one success status.  It returns without
\* an error only on 201 (Create) or 200 (Get, Update, Delete), and every
\* other 2xx status (200 on Create; 201 or 204 on Get, Update or Delete)
\* yields the unexpected-status error, which carries the status code, and no
\* resource.
C24_OneSuccessStatus ==
  Responded =>
    /\ (result.err = NoErr /\ ~result.panicked) => StatusOf = SuccessStatus(call.fn)
    /\ StatusOf \in Statuses2xx \ {SuccessStatus(call.fn)} =>
         /\ ~result.panicked
         /\ IsUnexpectedStatus(result.err, StatusOf)
         /\ result.res = Nil
         /\ result.etag = <<>>

\* UpdateAWSCloudTrailSource got 204 with a well-formed envelope.
C24_Witness ==
  /\ Responded
  /\ call.fn = "UpdateAWSCloudTrailSource"
  /\ StatusOf = 204
  /\ ValidEnvelope(call.fn, outcome.resp.Body)
  /\ result.res = Nil
  /\ IsUnexpectedStatus(result.err, 204)

NotFoundIds == {"ErrCollectorNotFound", "ErrSourceNotFound"}

\* C25: the not-found errors are returned by Get and Delete only.  A 404
\* response to a Create or an Update of any kind yields the
\* unexpected-status error and no resource, never ErrCollectorNotFound or
\* ErrSourceNotFound; and a collector function never returns
\* ErrSourceNotFound, nor a source function ErrCollectorNotFound.
C25_NotFoundOnlyGetDelete ==
  pc = "done" =>
    /\ result.err.id \in NotFoundIds => call.fn \in GetFns \cup DeleteFns
    /\ result.err.id \in NotFoundIds => result.err.id = NotFoundOf(call.fn)
    /\ (Responded /\ StatusOf = 404 /\ call.fn \in CreateFns \cup UpdateFns) =>
         /\ ~result.panicked
         /\ IsUnexpectedStatus(result.err, 404)
         /\ result.err.id \notin NotFoundIds
         /\ result.res = Nil

\* UpdateHostedCollector got 404.
C25_Witness ==
  /\ Responded
  /\ call.fn = "UpdateHostedCollector"
  /\ StatusOf = 404
  /\ IsUnexpectedStatus(result.err, 404)

SourceUpdateFns == UpdateFns \ CollectorFns

\* The text s ends with the text t.
EndsWith(s, t) == HasAt(s, Len(s) - Len(t) + 1, t)

\* The source object in the body of the request.
SourceOnWire == request.body.v["source"].v

\* C26: Update of a source builds its URL from the collectorID argument and
\* from the ID field of the resource passed in.  The CollectorID field of
\* the resource has no part in the URL: it goes into the body only (as
\* "CollectorId", left out when it is 0), also when it differs from the
\* argument.
C26_UpdateURLFromArgument ==
  (InCall /\ call.fn \in SourceUpdateFns) =>
    /\ request.method = "PUT"
    /\ EndsWith(request.url,
                <<"/","c","o","l","l","e","c","t","o","r","s","/">> \o Itoa(call.collectorID) \o <<"/","s","o","u","r","c","e","s","/">>
                  \o Itoa(call.resource.ID))
    /\ IF call.resource.CollectorID = 0
       THEN "CollectorId" \notin DOMAIN SourceOnWire
       ELSE SourceOnWire["CollectorId"] = JNum(call.resource.CollectorID)

\* UpdateAWSLogSource(1, source, etag) with source.CollectorID = 1234567890:
\* the PUT goes to collector 1, the body names collector 1234567890.
C26_Witness ==
  /\ InCall
  /\ call.fn = "UpdateAWSLogSource"
  /\ call.collectorID = 1
  /\ call.resource.CollectorID = DefaultID
  /\ call.resource.ID = DefaultID
  /\ EndsWith(request.url, <<"/","c","o","l","l","e","c","t","o","r","s","/","1","/","s","o","u","r","c","e","s","/","1","2","3","4","5","6","7","8","9","0">>)
  /\ SourceOnWire["CollectorId"] = JNum(DefaultID)

\* The path of the base URL up to and including its last "/".
WithoutLastSegment(p) == SubSeq(p, 1, LastIndexSlash(p))

\* C27: the URL of a request is the relative path of the function resolved
\* as a reference against the client's base URL.  When the path of the base
\* is empty or ends with "/", the request path is the base path followed by
\* the relative path (after the "/" that roots an empty path); when the
\* base path does not end with "/", its last segment is replaced by the
\* relative path, not extended with it.
C27_ReferenceResolution ==
  InCall =>
    LET base == client.EndpointURL
        p == base.Path
        origin == base.Scheme \o <<":","/","/">> \o base.Host
    IN /\ Len(p) = 0 => request.url = origin \o <<"/">> \o ExpectedPath
       /\ (Len(p) > 0 /\ p[Len(p)] = "/") =>
            request.url = origin \o p \o ExpectedPath
       /\ (Len(p) > 0 /\ p[Len(p)] # "/") =>
            /\ request.url = origin \o WithoutLastSegment(p) \o ExpectedPath
            /\ request.url # origin \o p \o <<"/">> \o ExpectedPath

\* A client made for http://127.0.0.1:8080/api/v1 gets a collector from
\* /api/collectors/1234567890: the segment "v1" is gone.
C27_Witness ==
  /\ InCall
  /\ construction.defaultEndpointURL = URLNoSlash
  /\ client.EndpointURL.Path = <<"/","a","p","i","/","v","1">>
  /\ call.fn = "GetHostedCollector"
  /\ call.id = DefaultID
  /\ request.url = <<"h","t","t","p",":","/","/","1","2","7",".","0",".","0",".","1",":","8","0","8","0","/","a","p","i","/","c","o","l","l","e","c","t","o","r","s","/","1","2","3","4","5","6","7","8","9","0">>

\* C28: ErrClientAuthenticationError and ErrAwsAuthenticationError are two
\* error values with one message text.  A 401 response always yields the
\* first and never the second, and a 400 response never yields the first:
\* the two conditions are told apart by the identity of the error, not by
\* its message.
C28_AuthenticationErrorsDistinct ==
  /\ ErrClientAuthenticationError # ErrAwsAuthenticationError
  /\ ErrClientAuthenticationError.msg = ErrAwsAuthenticationError.msg
  /\ (Responded /\ StatusOf = 401) =>
       /\ result.err = ErrClientAuthenticationError
       /\ result.err # ErrAwsAuthenticationError
       /\ result.res = Nil
  /\ (Responded /\ StatusOf = 400) =>
       /\ result.err # ErrClientAuthenticationError
       /\ result.err.id # "ErrClientAuthenticationError"

\* CreateAWSLogSource got 400 "Cannot authenticate with AWS.": the error has
\* the message of ErrClientAuthenticationError and is not that error.
C28_Witness ==
  /\ Responded
  /\ call.fn = "CreateAWSLogSource"
  /\ StatusOf = 400
  /\ outcome.resp.Body = ErrorBody(SampleCannotAuthenticate)
  /\ result.err = ErrAwsAuthenticationError
  /\ result.err.msg = ErrClientAuthenticationError.msg
  /\ result.err # ErrClientAuthenticationError

\* The body is a JSON object none of whose keys is the envelope key of the
\* function in any spelling of case.
LacksEnvelopeKey(fn, body) ==
  /\ body.t = "obj"
  /\ \A k \in DOMAIN body.v : ~EqualFold(k, EnvelopeKey(fn))

\* C29: on the success status of the function (200 for Get and Update, 201
\* for Create) with a body that is a JSON object without the envelope key,
\* such as {} or a resource that is not wrapped, the function returns a
\* resource whose every field holds its zero value (id 0, empty name) and a
\* nil error, not a decode error.
C29_MissingEnvelopeKeyZeroResource ==
  (/\ Responded
   /\ call.fn \in ResourceFns
   /\ StatusOf = SuccessStatus(call.fn)
   /\ LacksEnvelopeKey(call.fn, outcome.resp.Body)) =>
    /\ ~result.panicked
    /\ result.err = NoErr
    /\ result.res # Nil
    /\ result.res = Zero(ResourceType(call.fn))
    /\ result.res.ID = 0
    /\ result.res.Name = <<>>

\* CreateHTTPSource got 201 and {"id":1234567890,"name":"test"}.
C29_Witness ==
  /\ Responded
  /\ call.fn = "CreateHTTPSource"
  /\ StatusOf = 201
  /\ outcome.resp.Body = BareResource
  /\ result.err = NoErr
  /\ result.res.ID = 0
  /\ result.res.Name = <<>>

(***************************************************************************)
(* Termination.  A function that has sent its request is blocked in        *)
(* client.Do until the transport yields a response or an error (none of    *)
(* the http.Client values has a Timeout); then it returns.  That the       *)
(* transport yields for every request is weak fairness of that step.       *)
(***************************************************************************)
InitLive ==
  /\ construction = [authToken |-> TokenTest, defaultEndpointURL |-> URLTest,
                     err |-> NoErr]
  /\ client = TestClient
  /\ pc = "idle"
  /\ call = NoCall
  /\ request = NoRequest
  /\ sent = <<>>
  /\ outcome = NoOutcome
  /\ result = NoResult
  /\ server = NoServer
  /\ held = NoHeld
  /\ other = NoCaller

\* client.Do yields a response or an error, and the function returns its
\* results for it.
TransportYields ==
  /\ pc = "waiting"
  /\ \E o \in Outcomes : Complete(o, ResultOf(call, o))

NextLive ==
  \/ Call
  \/ TransportYields
  \/ Done

SpecLive == InitLive /\ [][NextLive]_vars /\ WF_vars(TransportYields)

\* While the function waits for the transport it has returned nothing.
Blocked == pc = "waiting" => (outcome = NoOutcome /\ result = NoResult)

\* The function stops waiting only by returning on what the transport
\* yielded for the one request it sent.
ReturnsOnOutcome ==
  (pc = "waiting" /\ pc' # "waiting") =>
    /\ pc' = "done"
    /\ outcome'.kind \in {"error", "response"}
    /\ result' = ResultOf(call, outcome')
    /\ UNCHANGED <<call, request, sent>>
    /\ Len(sent) = 1

\* C30: if the transport eventually yields a response or an error for each
\* request, every call eventually returns, after that one exchange.  The
\* client has no timeout of its own: while the transport yields neither,
\* the call stays blocked, and it never returns an error by itself.
C30_ReturnsWhenTransportYields ==
  /\ (pc = "waiting") ~> (pc = "done")
  /\ []Blocked
  /\ [][ReturnsOnOutcome]_vars

\* DeleteAWSLogSource returned after the transport yielded a 500 response
\* to its one request.
C30_Witness ==
  /\ pc = "done"
  /\ call.fn = "DeleteAWSLogSource"
  /\ Len(sent) = 1
  /\ outcome.kind = "response"
  /\ StatusOf = 500
  /\ IsUnexpectedStatus(result.err, 500)

====
